---- MODULE Spec2Model ----
(***************************************************************************)
(* Service-class dispatch core of pynetdicom (pynetdicom/service_class.py) *)
(* as a state machine: one DIMSE request at a time is handled by the       *)
(* C-ECHO, C-STORE, C-FIND, C-GET, C-MOVE or Relevant-Patient protocol,    *)
(* the user's handler is a nondeterministic producer, and everything the   *)
(* protocol does to the outside (responses sent, sub-operations, outbound  *)
(* association calls) is appended to `log` in program order.               *)
(***************************************************************************)
EXTENDS Integers, Sequences, FiniteSets, TLC

(***************************************************************************)
(* Bounds of the model.                                                    *)
(***************************************************************************)
\* most values a producer yields in the main loop of one request
MaxYields == 3
\* largest number of sub-operations a handler announces
MaxSubops == 3

(***************************************************************************)
(* Program constants: status codes and the Message ID limit.               *)
(***************************************************************************)
StatusSuccess == 0
StatusPending == 65280
StatusPendingWarning == 65281
StatusCancel == 65024
StatusWarningB000 == 45056
StatusRefusedSOPClass == 290
StatusOutOfResources == 42752
StatusA701 == 42753
StatusA702 == 42754
StatusA801 == 43009
StatusA900 == 43264
StatusC001 == 49153
StatusC002 == 49154
StatusC100 == 49408
StatusC200 == 49664
StatusC211 == 49681
StatusC310 == 49936
StatusC311 == 49937
StatusC312 == 49938
StatusC411 == 50193
StatusC413 == 50195
StatusC510 == 50448
StatusC511 == 50449
StatusC513 == 50451
StatusC514 == 50452
StatusC515 == 50453
RangeC000 == 49152
RangeCFFF == 53247
RangeA7FF == 43007
RangeA9FF == 43519
MaxMessageID == 65535
\* Python's None where the program holds a number
NoneInt == -1
\* Python's None where the program holds a string
NoneStr == "<None>"

STATUS_SUCCESS == "Success"
STATUS_PENDING == "Pending"
STATUS_CANCEL == "Cancel"
STATUS_FAILURE == "Failure"
STATUS_WARNING == "Warning"
\* `code in self.statuses` is false
NOT_IN_REGISTRY == "Unknown"

(***************************************************************************)
(* Status registries, as the docstrings of the service classes list them.  *)
(* Each maps a code to its category.                                       *)
(***************************************************************************)
VERIFICATION_SERVICE_CLASS_STATUS(c) ==
    IF c = StatusSuccess THEN STATUS_SUCCESS
    ELSE IF c \in {StatusRefusedSOPClass, 528, 529, 530} THEN STATUS_FAILURE
    ELSE NOT_IN_REGISTRY

STORAGE_SERVICE_CLASS_STATUS(c) ==
    IF c = StatusSuccess THEN STATUS_SUCCESS
    ELSE IF c \in {StatusWarningB000, 45062, 45063} THEN STATUS_WARNING
    ELSE IF \/ c \in {279, StatusRefusedSOPClass, 292, 528, 529, 530}
            \/ c \in StatusOutOfResources..RangeA7FF
            \/ c \in StatusA900..RangeA9FF
            \/ c \in RangeC000..RangeCFFF THEN STATUS_FAILURE
    ELSE NOT_IN_REGISTRY

QR_FIND_SERVICE_CLASS_STATUS(c) ==
    IF c = StatusSuccess THEN STATUS_SUCCESS
    ELSE IF c \in {StatusPending, StatusPendingWarning} THEN STATUS_PENDING
    ELSE IF c = StatusCancel THEN STATUS_CANCEL
    ELSE IF \/ c \in {StatusRefusedSOPClass, StatusOutOfResources, StatusA900}
            \/ c \in RangeC000..RangeCFFF THEN STATUS_FAILURE
    ELSE NOT_IN_REGISTRY

QR_GET_SERVICE_CLASS_STATUS(c) ==
    IF c = StatusSuccess THEN STATUS_SUCCESS
    ELSE IF c = StatusPending THEN STATUS_PENDING
    ELSE IF c = StatusCancel THEN STATUS_CANCEL
    ELSE IF \/ c \in {StatusRefusedSOPClass, 292, 528, 529, 530,
                      StatusA701, StatusA702, StatusA900}
            \/ c \in RangeC000..RangeCFFF THEN STATUS_FAILURE
    ELSE IF c = StatusWarningB000 THEN STATUS_WARNING
    ELSE NOT_IN_REGISTRY

QR_MOVE_SERVICE_CLASS_STATUS(c) ==
    IF c = StatusSuccess THEN STATUS_SUCCESS
    ELSE IF c = StatusPending THEN STATUS_PENDING
    ELSE IF c = StatusCancel THEN STATUS_CANCEL
    ELSE IF \/ c \in {StatusRefusedSOPClass, 292, 528, 529, 530,
                      StatusA701, StatusA702, StatusA801, StatusA900}
            \/ c \in RangeC000..RangeCFFF THEN STATUS_FAILURE
    ELSE IF c = StatusWarningB000 THEN STATUS_WARNING
    ELSE NOT_IN_REGISTRY

RELEVANT_PATIENT_SERVICE_CLASS_STATUS(c) ==
    IF c = StatusSuccess THEN STATUS_SUCCESS
    ELSE IF c \in {StatusPending, StatusPendingWarning} THEN STATUS_PENDING
    ELSE IF c = StatusCancel THEN STATUS_CANCEL
    ELSE IF c \in {StatusRefusedSOPClass, StatusOutOfResources, StatusA900,
                   StatusC100, StatusC200} THEN STATUS_FAILURE
    ELSE NOT_IN_REGISTRY

\* self.statuses[code][0] of the service class running protocol `svc`
statuses(svc, c) ==
    CASE svc = "echo" -> VERIFICATION_SERVICE_CLASS_STATUS(c)
      [] svc = "store" -> STORAGE_SERVICE_CLASS_STATUS(c)
      [] svc = "find" -> QR_FIND_SERVICE_CLASS_STATUS(c)
      [] svc = "get" -> QR_GET_SERVICE_CLASS_STATUS(c)
      [] svc = "move" -> QR_MOVE_SERVICE_CLASS_STATUS(c)
      [] svc = "rpiq" -> RELEVANT_PATIENT_SERVICE_CLASS_STATUS(c)
      [] OTHER -> NOT_IN_REGISTRY

(***************************************************************************)
(* Values.  A dataset is modelled by what the protocols read of it: its    *)
(* Python type, which elements it holds, its SOPInstanceUID and its        *)
(* FailedSOPInstanceUIDList.                                               *)
(***************************************************************************)
NoneDs == [kind |-> "None", keys |-> {}, uid |-> "", fsl |-> <<>>]
\* a value that is not a Dataset and is truthy (a str, a list, ...)
OtherDs == [kind |-> "other", keys |-> {}, uid |-> "", fsl |-> <<>>]
\* Dataset() with no element
EmptyDataset == [kind |-> "Dataset", keys |-> {}, uid |-> "", fsl |-> <<>>]
\* a Dataset holding SOPInstanceUID = u
DsUID(u) == [kind |-> "Dataset", keys |-> {"SOPInstanceUID"}, uid |-> u, fsl |-> <<>>]
\* a Dataset with elements but no SOPInstanceUID
DsNoUID == [kind |-> "Dataset", keys |-> {"PatientID"}, uid |-> "", fsl |-> <<>>]
\* ds = Dataset(); ds.FailedSOPInstanceUIDList = l
DsFailedList(l) ==
    [kind |-> "Dataset", keys |-> {"FailedSOPInstanceUIDList"}, uid |-> "", fsl |-> l]

isinstance_Dataset(ds) == ds.kind = "Dataset"
\* bool(ds): None and an empty Dataset are falsy
Truthy(ds) == ds.kind = "other" \/ (ds.kind = "Dataset" /\ ds.keys # {})

\* the negotiated transfer syntax of the presentation context
transfer_syntax == [is_implicit_VR |-> TRUE, is_little_endian |-> TRUE]

\* b'' : what BytesIO(encode(...)) holds when encode() could not encode
EmptyBytes == [empty |-> TRUE]
\* dsutils.encode followed by BytesIO(): the elements of the dataset written
\* under the transfer syntax; a value that is no Dataset, or a Dataset with no
\* element, gives b''
encode(ds, ts) ==
    IF isinstance_Dataset(ds) /\ ds.keys # {}
    THEN [empty |-> FALSE, keys |-> ds.keys, uid |-> ds.uid, fsl |-> ds.fsl,
          implicit |-> ts.is_implicit_VR, little |-> ts.is_little_endian]
    ELSE EmptyBytes

\* rsp.Identifier: <<>> is None, <<b>> is BytesIO(b)
NoIdentifier == <<>>
BytesIO(b) == <<b>>

\* What a handler returns or yields as status: an int, a Dataset (with or
\* without a Status element, with further elements), or anything else.
IntStatus(c) ==
    [kind |-> "int", Status |-> c, ErrorComment |-> NoneStr,
     MessageIDBeingRespondedTo |-> NoneInt, AffectedSOPInstanceUID |-> NoneStr,
     Unsupported |-> FALSE]
DatasetStatus(c, comment, mid, unsupported) ==
    [kind |-> "Dataset", Status |-> c, ErrorComment |-> comment,
     MessageIDBeingRespondedTo |-> mid, AffectedSOPInstanceUID |-> NoneStr,
     Unsupported |-> unsupported]
\* a status Dataset that also holds an AffectedSOPInstanceUID element
DatasetStatusUID(c, uid) ==
    [DatasetStatus(c, NoneStr, NoneInt, FALSE) EXCEPT
        !.AffectedSOPInstanceUID = uid]
OtherStatus ==
    [kind |-> "other", Status |-> NoneInt, ErrorComment |-> NoneStr,
     MessageIDBeingRespondedTo |-> NoneInt, AffectedSOPInstanceUID |-> NoneStr,
     Unsupported |-> FALSE]
\* the exception _wrap_handler yields in place of a status
ExceptionStatus ==
    [kind |-> "Exception", Status |-> NoneInt, ErrorComment |-> NoneStr,
     MessageIDBeingRespondedTo |-> NoneInt, AffectedSOPInstanceUID |-> NoneStr,
     Unsupported |-> FALSE]

\* The response primitive built at the top of every protocol.
NewRsp(req) ==
    [MessageID |-> req.MessageID,
     MessageIDBeingRespondedTo |-> req.MessageID,
     AffectedSOPClassUID |-> req.AffectedSOPClassUID,
     AffectedSOPInstanceUID |-> NoneStr,
     Status |-> NoneInt,
     ErrorComment |-> NoneStr,
     Identifier |-> NoIdentifier,
     NumberOfRemainingSuboperations |-> NoneInt,
     NumberOfFailedSuboperations |-> NoneInt,
     NumberOfWarningSuboperations |-> NoneInt,
     NumberOfCompletedSuboperations |-> NoneInt]

\* `for elem in status: if hasattr(rsp, elem.keyword): setattr(...)`: every
\* element of the status Dataset that names an attribute of the primitive is
\* copied; an element that names none is only logged.
CopyElements(status, r) ==
    [r EXCEPT
       !.Status = status.Status,
       !.ErrorComment =
           IF status.ErrorComment # NoneStr THEN status.ErrorComment ELSE @,
       !.MessageIDBeingRespondedTo =
           IF status.MessageIDBeingRespondedTo # NoneInt
           THEN status.MessageIDBeingRespondedTo ELSE @,
       !.AffectedSOPInstanceUID =
           IF status.AffectedSOPInstanceUID # NoneStr
           THEN status.AffectedSOPInstanceUID ELSE @]

\* validate_status taking only the Status element of a status Dataset
validate_status_only_Status(status, r) ==
    IF status.kind = "Dataset"
    THEN IF status.Status # NoneInt
         THEN [r EXCEPT !.Status = status.Status]
         ELSE [r EXCEPT !.Status = StatusC001]
    ELSE IF status.kind = "int"
    THEN [r EXCEPT !.Status = status.Status]
    ELSE [r EXCEPT !.Status = StatusC002]

\* ServiceClass.validate_status: sets rsp.Status (and the attributes a status
\* Dataset names) from what the handler gave; an unknown code is only logged.
validate_status(status, r) ==
    IF status.kind = "Dataset"
    THEN IF status.Status # NoneInt
         THEN CopyElements(status, r)
         ELSE [r EXCEPT !.Status = StatusC001]
    ELSE IF status.kind = "int"
    THEN [r EXCEPT !.Status = status.Status]
    ELSE [r EXCEPT !.Status = StatusC002]

\* _wrap_handler without its except clause: the pull goes through as it is
_wrap_handler_no_except(pulled) == pulled

\* ServiceClass._wrap_handler: what the wrapped producer gives for one pull
\* of the user's producer.  A fault becomes the pair (exception, trace).
_wrap_handler(pulled) ==
    IF pulled.what = "fault"
    THEN [what |-> "yield", status |-> ExceptionStatus, dataset |-> NoneDs]
    ELSE pulled

(***************************************************************************)
(* State.                                                                  *)
(***************************************************************************)
VARIABLES
    pc,                \* where the association's request processing stands
    svc,               \* the protocol handling the current request
    req,               \* the request primitive
    rsp,               \* the response primitive the protocol keeps reusing
    handler,           \* the producer the event trigger returned ("none":
                       \* no trigger; "fault": the trigger raised)
    ii,                \* the loop index of enumerate()
    store_results,     \* <<remaining, failed, warning, completed>>
    failed_instances,  \* SOP Instance UIDs of failed/warned sub-operations
    no_suboperations,  \* the number of sub-operations the handler announced
    store_assoc,       \* C-MOVE: the outbound association
    log,               \* everything done to the outside, in program order
    cancel_req,        \* dimse.cancel_req: the message ids with a C-CANCEL
    probe,             \* the last is_cancelled call: its argument and result
    consumed,          \* ids whose C-CANCEL a call reported, none recorded since
    mid_in,            \* sub-operation Message ID: the inputs (MessageID, ii)
    mid_out,           \* sub-operation Message ID: the msg_id computed
    router,            \* SCP(req, context): the class, the abstract syntax
                       \* and what SCP called or raised
    wrapper,           \* _wrap_handler(handler): the producer it wraps, how
                       \* often it pulled it, what it yielded, where it stands
    served,            \* the request whose handler polls is_cancelled: its
                       \* Message ID, the ids with a C-CANCEL recorded since
                       \* it started, the ids with a C-CANCEL left over by
                       \* the request it was meant for
    poll               \* the is_cancelled call under way: the statement it
                       \* stands at, its argument, the ids with a C-CANCEL
                       \* recorded and not reported since, whether it raised,
                       \* whether a C-CANCEL for its argument was recorded
                       \* between its membership test and its del

protoVars == <<pc, svc, req, rsp, handler, ii, store_results, failed_instances,
               no_suboperations, store_assoc, log>>
cancelVars == <<cancel_req, probe, consumed>>
midVars == <<mid_in, mid_out>>
routerVars == <<router>>
wrapperVars == <<wrapper>>
pollVars == <<served, poll>>
vars == <<pc, svc, req, rsp, handler, ii, store_results, failed_instances,
          no_suboperations, store_assoc, log, cancel_req, probe, consumed,
          mid_in, mid_out, router, wrapper, served, poll>>

\* log entries
Send(r) == [ev |-> "send", rsp |-> r]
\* next() on the producer in the main loop, and what it gave
Pull(p) == [ev |-> "next", what |-> p.what, status |-> p.status,
            dataset |-> p.dataset]
\* evt.trigger of a handler that returns a status, and what came of it
Trigger(outcome) ==
    [ev |-> "trigger", what |-> outcome.what, status |-> outcome.status]
\* next() on the producer before the main loop, for the number of
\* sub-operations: whether it gave a value, and the int() of that value
\* (NoneInt when int() does not take it)
ProloguePull(obtained, n) ==
    [ev |-> "next", what |-> "prologue", obtained |-> obtained,
     value |-> IF obtained THEN n ELSE NoneInt]

\* The requests of the model: Message ID and SOP class / instance.
Requests ==
    {[MessageID |-> m, AffectedSOPClassUID |-> "1.2.3",
      AffectedSOPInstanceUID |-> "4.5.6", Identifier |-> "encoded"] :
        m \in {7, MaxMessageID}}
NoRequest == [MessageID |-> NoneInt, AffectedSOPClassUID |-> NoneStr,
              AffectedSOPInstanceUID |-> NoneStr, Identifier |-> NoneStr]

\* req.Identifier of a C-FIND or C-MOVE request: a bytestream that encodes a
\* Dataset, or one that does not
IdentifierInputs == {"encoded", "garbled"}

\* decode that takes every bytestream
decode_anything(bytestream, ts) == "Dataset"

\* decode(req.Identifier, is_implicit_VR, is_little_endian) inside the try
\* block of a protocol: the Dataset, or the exception the except clause gets
decode(bytestream, ts) ==
    IF bytestream = "encoded" THEN "Dataset" ELSE "Exception"

\* What the handlers of the model return or yield as status.
StatusInputs ==
    {IntStatus(c) : c \in {StatusSuccess, StatusPending, StatusCancel,
                           StatusA900, StatusWarningB000, 65520}}
    \cup {DatasetStatus(StatusPending, "comment", NoneInt, TRUE),
          DatasetStatus(StatusA900, NoneStr, 99, FALSE),
          DatasetStatus(NoneInt, "comment", NoneInt, FALSE),
          OtherStatus}

\* What the handler of C-STORE returns as status: StatusInputs and a status
\* Dataset that names another SOP Instance.
StoreStatusInputs ==
    StatusInputs \cup {DatasetStatusUID(StatusSuccess, "9.9.9")}

Idle ==
    /\ pc = "idle"
    /\ svc = "none"
    /\ req = NoRequest
    /\ rsp = NewRsp(NoRequest)
    /\ handler = "none"
    /\ ii = -1
    /\ store_results = <<0, 0, 0, 0>>
    /\ failed_instances = <<>>
    /\ no_suboperations = NoneInt
    /\ store_assoc = "none"
    /\ log = <<>>

\* no SCP(req, context) call under way
NoDispatch == [cls |-> "none", abstract_syntax |-> NoneStr, called |-> NoneStr]

\* no generator has been wrapped
NoWrapper == [handler |-> <<>>, pulls |-> 0, yielded |-> <<>>, at |-> "none"]

\* no request is being served
NoServed == [MessageID |-> NoneInt, fresh |-> {}, stale |-> {}]

\* no is_cancelled call is under way
NoPoll == [at |-> "idle", msg_id |-> NoneInt, owed |-> {}, raised |-> FALSE,
           overlapped |-> FALSE]

Init ==
    /\ Idle
    /\ cancel_req = {}
    /\ probe = [msg_id |-> NoneInt, result |-> FALSE, calls |-> 0]
    /\ consumed = {}
    /\ mid_in = <<NoneInt, NoneInt>>
    /\ mid_out = NoneInt
    /\ router = NoDispatch
    /\ wrapper = NoWrapper
    /\ served = NoServed
    /\ poll = NoPoll

\* A protocol returns: the request is over.
Return(r, events) ==
    /\ pc' = "done"
    /\ rsp' = r
    /\ log' = log \o events

(***************************************************************************)
(* VerificationServiceClass.SCP                                            *)
(***************************************************************************)
\* EchoStatus answering a fault the way the other protocols do: a failure
\* status for a handler fault, validate_status for what the handler returned
EchoStatusFailsOnFault(r, outcome) ==
    IF outcome.what = "fault" THEN [r EXCEPT !.Status = StatusC211]
    ELSE validate_status(outcome.status, r)

\* EchoStatus answering 0x0000 whatever the handler returned
EchoStatusAlwaysSuccess(r, outcome) == [r EXCEPT !.Status = StatusSuccess]

\* the try block: rsp after the handler returned `status` or faulted
EchoStatus(r, outcome) ==
    IF outcome.what = "fault" THEN [r EXCEPT !.Status = StatusSuccess]
    ELSE IF outcome.status.kind = "Dataset"
    THEN IF outcome.status.Status = NoneInt
         THEN [r EXCEPT !.Status = StatusSuccess]
         ELSE CopyElements(outcome.status, r)
    ELSE IF outcome.status.kind = "int"
    THEN [r EXCEPT !.Status = outcome.status.Status]
    ELSE [r EXCEPT !.Status = StatusSuccess]

EchoSCP ==
    /\ pc = "idle"
    /\ \E q \in Requests, outcome \in
            {[what |-> "fault", status |-> OtherStatus]}
            \cup {[what |-> "return", status |-> s] : s \in StatusInputs} :
         /\ req' = q
         /\ svc' = "echo"
         /\ Return(EchoStatus(NewRsp(q), outcome),
                   <<Trigger(outcome), Send(EchoStatus(NewRsp(q), outcome))>>)
    /\ UNCHANGED <<handler, ii, store_results, failed_instances,
                   no_suboperations, store_assoc, cancelVars, midVars, routerVars, wrapperVars, pollVars>>

(***************************************************************************)
(* StorageServiceClass.SCP                                                 *)
(***************************************************************************)
StoreRsp(q) == [NewRsp(q) EXCEPT !.AffectedSOPInstanceUID = q.AffectedSOPInstanceUID]

StoreStatus(r, outcome) ==
    IF outcome.what = "fault" THEN [r EXCEPT !.Status = StatusC211]
    ELSE validate_status(outcome.status, r)

StoreSCP ==
    /\ pc = "idle"
    /\ \E q \in Requests, outcome \in
            {[what |-> "fault", status |-> OtherStatus]}
            \cup {[what |-> "return", status |-> s] : s \in StoreStatusInputs} :
         /\ req' = q
         /\ svc' = "store"
         /\ Return(StoreStatus(StoreRsp(q), outcome),
                   <<Trigger(outcome), Send(StoreStatus(StoreRsp(q), outcome))>>)
    /\ UNCHANGED <<handler, ii, store_results, failed_instances,
                   no_suboperations, store_assoc, cancelVars, midVars, routerVars, wrapperVars, pollVars>>

(***************************************************************************)
(* The user's producer.  One pull gives a (status, dataset) pair, ends the *)
(* producer, or faults.  A producer yields at most MaxYields pairs.        *)
(***************************************************************************)
Yield(s, d) == [what |-> "yield", status |-> s, dataset |-> d]
EndOfProducer == [what |-> "end", status |-> OtherStatus, dataset |-> NoneDs]
Fault == [what |-> "fault", status |-> OtherStatus, dataset |-> NoneDs]

\* what the next pull of a user producer can give, `i` pairs having been given
UserPulls(i, datasets) ==
    {EndOfProducer, Fault}
    \cup (IF i < MaxYields
          THEN {Yield(s, d) : s \in StatusInputs, d \in datasets}
          ELSE {})

(***************************************************************************)
(* QueryRetrieveServiceClass._find_scp                                     *)
(***************************************************************************)
FindIdentifiers == {NoneDs, DsUID("A"), DsUID("B")}

\* `handler = iter([(0x0000, None)])` gives one pair and ends
FindPulls ==
    IF handler = "iter"
    THEN IF ii = -1 THEN {Yield(IntStatus(StatusSuccess), NoneDs)}
                    ELSE {EndOfProducer}
    ELSE UserPulls(ii + 1, FindIdentifiers)

\* `if isinstance(rsp_status, Exception): rsp_status = <code>`
FaultToStatus(status, code) ==
    IF status.kind = "Exception" THEN IntStatus(code) ELSE status

\* getvalue_is_empty that finds every bytestream filled
getvalue_never_empty(bytestream) == FALSE

\* `if bytestream.getvalue() == b'':`
getvalue_is_empty(bytestream) == bytestream = EmptyBytes

\* FindResetIdentifier without the reset
FindKeepIdentifier(r) == r

\* `rsp.Identifier = None` at the end of one pass of the loop
FindResetIdentifier(r) == [r EXCEPT !.Identifier = NoIdentifier]

\* FindPass without the `return` of its terminal branches: every pass sends
\* the response and goes on to the next pair
FindPassNoReturn(service, r0, rsp_status, rsp_identifier) ==
    LET r1 == validate_status(FaultToStatus(rsp_status, StatusC311), r0)
    IN  [rsp |-> r1, sent |-> <<Send(r1)>>, return |-> FALSE]

\* One pass of the loop over a yielded pair: the primitive as the pass leaves
\* it, the responses it sends, and whether it returns from the protocol.
FindPass(service, r0, rsp_status, rsp_identifier) ==
    LET r1 == validate_status(FaultToStatus(rsp_status, StatusC311), r0)
        category == statuses(service, r1.Status)
        bytestream == encode(rsp_identifier, transfer_syntax)
        failed == [r1 EXCEPT !.Status = StatusC312]
        pending == [r1 EXCEPT !.Identifier = BytesIO(bytestream)]
    IN  IF category = NOT_IN_REGISTRY
        THEN [rsp |-> r1, sent |-> <<Send(r1)>>, return |-> TRUE]
        ELSE IF category \in {STATUS_CANCEL, STATUS_FAILURE, STATUS_SUCCESS}
        THEN [rsp |-> r1, sent |-> <<Send(r1)>>, return |-> TRUE]
        ELSE IF category = STATUS_PENDING
        THEN IF getvalue_is_empty(bytestream)
             THEN [rsp |-> failed, sent |-> <<Send(failed)>>, return |-> TRUE]
             ELSE [rsp |-> FindResetIdentifier(pending),
                   sent |-> <<Send(pending)>>, return |-> FALSE]
        ELSE [rsp |-> FindResetIdentifier(r1), sent |-> <<>>, return |-> FALSE]

\* FindFinal answering with Pending once more
FindFinalPending(r) == [r EXCEPT !.Status = StatusPending]

\* FindFinal without `rsp.Status = 0x0000`: the final response goes out with
\* the status the last pass left
FindFinalStaleStatus(r) == r

\* The final response once the producer is exhausted.
FindFinal(r) == [r EXCEPT !.Status = StatusSuccess]

\* Entry of _find_scp up to the loop: decode the request's Identifier, then
\* trigger evt.EVT_C_FIND.
FindBegin ==
    /\ pc = "idle"
    /\ \E q \in Requests,
          identifier \in IdentifierInputs,
          triggered \in {"fault", "None", "generator"} :
         /\ req' = [q EXCEPT !.Identifier = identifier]
         /\ svc' = "find"
         /\ IF decode(identifier, transfer_syntax) = "Exception"
            THEN /\ Return([NewRsp(q) EXCEPT
                              !.Status = StatusC310,
                              !.ErrorComment = "Unable to decode the dataset"],
                           <<Send([NewRsp(q) EXCEPT
                              !.Status = StatusC310,
                              !.ErrorComment = "Unable to decode the dataset"])>>)
                 /\ handler' = "none"
            ELSE IF triggered = "fault"
            THEN /\ Return([NewRsp(q) EXCEPT !.Status = StatusC311],
                           <<Send([NewRsp(q) EXCEPT !.Status = StatusC311])>>)
                 /\ handler' = "fault"
            ELSE /\ pc' = "find_loop"
                 /\ rsp' = NewRsp(q)
                 /\ log' = log
                 /\ handler' = IF triggered = "None" THEN "iter" ELSE "user"
    /\ UNCHANGED <<ii, store_results, failed_instances, no_suboperations,
                   store_assoc, cancelVars, midVars, routerVars, wrapperVars, pollVars>>

\* One pull of the wrapped producer and the pass of the loop over what it gave,
\* or the final response when the producer is exhausted.
FindIter ==
    /\ pc = "find_loop"
    /\ \E pulled \in FindPulls :
         LET w == _wrap_handler(pulled)
             pass == FindPass(svc, rsp, w.status, w.dataset)
         IN  IF w.what = "end"
             THEN /\ Return(FindFinal(rsp), <<Pull(pulled), Send(FindFinal(rsp))>>)
                  /\ ii' = ii
             ELSE /\ ii' = ii + 1
                  /\ rsp' = pass.rsp
                  /\ log' = log \o <<Pull(pulled)>> \o pass.sent
                  /\ pc' = IF pass.return THEN "done" ELSE "find_loop"
    /\ UNCHANGED <<svc, req, handler, store_results, failed_instances,
                   no_suboperations, store_assoc, cancelVars, midVars, routerVars, wrapperVars, pollVars>>

(***************************************************************************)
(* Helpers shared by _get_scp and _move_scp.                               *)
(***************************************************************************)
\* log entries of the retrieve protocols
CStore(on, dataset, idx, msg_id, outcome) ==
    [ev |-> "c_store", on |-> on, uid |-> dataset.uid, ii |-> idx,
     msg_id |-> msg_id, outcome |-> outcome]

\* `msg_id = req.MessageID + ii + 1; if msg_id > 65535: msg_id -= 65535`
SubOpMsgId(message_id, idx) ==
    LET msg_id == message_id + idx + 1
    IN  IF msg_id > MaxMessageID THEN msg_id - MaxMessageID ELSE msg_id

\* What a C-STORE sub-operation can come back with: a response Status, or
\* NoneInt when send_c_store raised or gave a response without Status.
StoreOutcomes == {StatusSuccess, StatusWarningB000, StatusOutOfResources, NoneInt}

\* `store_status = STORAGE_SERVICE_CLASS_STATUS[store_status.Status]` inside
\* the try: any exception, the KeyError of an unknown code included, implies
\* a failure.
StoreStatusCategory(outcome) ==
    IF outcome = NoneInt
       \/ STORAGE_SERVICE_CLASS_STATUS(outcome) = NOT_IN_REGISTRY
    THEN STATUS_FAILURE
    ELSE STORAGE_SERVICE_CLASS_STATUS(outcome)

\* _add_failed_instance replacing the list by the last SOP Instance UID
AddFailedInstanceOnly(failed, ds) ==
    IF "SOPInstanceUID" \in ds.keys THEN <<ds.uid>> ELSE failed

\* _add_failed_instance putting the SOP Instance UID at the front of the list
AddFailedInstanceFront(failed, ds) ==
    IF "SOPInstanceUID" \in ds.keys THEN <<ds.uid>> \o failed ELSE failed

\* _add_failed_instance
AddFailedInstance(failed, ds) ==
    IF "SOPInstanceUID" \in ds.keys THEN Append(failed, ds.uid) ELSE failed

\* UpdateResults without `store_results[0] -= 1`
UpdateResultsNoDecrement(results, category) ==
    <<results[1],
      results[2] + (IF category = STATUS_FAILURE THEN 1 ELSE 0),
      results[3] + (IF category = STATUS_WARNING THEN 1 ELSE 0),
      results[4] + (IF category = STATUS_SUCCESS THEN 1 ELSE 0)>>

\* the tracker after a sub-operation of category `category`
UpdateResults(results, category) ==
    <<results[1] - 1,
      results[2] + (IF category = STATUS_FAILURE THEN 1 ELSE 0),
      results[3] + (IF category = STATUS_WARNING THEN 1 ELSE 0),
      results[4] + (IF category = STATUS_SUCCESS THEN 1 ELSE 0)>>

\* the failed instances after a sub-operation of category `category`
UpdateFailed(failed, category, ds) ==
    IF category \in {STATUS_FAILURE, STATUS_WARNING}
    THEN AddFailedInstance(failed, ds) ELSE failed

\* InvalidDatasetResults that also takes the pair off the remaining ones
InvalidDatasetResultsDecrement(results) ==
    <<results[1] - 1, results[2] + 1, results[3], results[4]>>

\* SubOperationsComplete that lets every pair through
SubOperationsNeverComplete(results) == FALSE

\* SubOperationsComplete that only stops at exactly no sub-operation left
SubOperationsCompleteAtZero(results) == results[1] = 0

\* `if store_results[0] <= 0:` "All sub-operations are complete"
SubOperationsComplete(results) == results[1] <= 0

\* the tracker after a Pending yield whose dataset is no Dataset
InvalidDatasetResults(results) ==
    <<results[1], results[2] + 1, results[3], results[4]>>

\* the four `rsp.NumberOf...Suboperations = store_results[...]` assignments of
\* a Pending or Cancel response
PendingCounters(r, results) ==
    [r EXCEPT !.NumberOfRemainingSuboperations = results[1],
              !.NumberOfFailedSuboperations = results[2],
              !.NumberOfWarningSuboperations = results[3],
              !.NumberOfCompletedSuboperations = results[4]]

\* FailureCounters reporting the remaining sub-operations as a Pending
\* response does
FailureCountersWithRemaining(r, results) ==
    [r EXCEPT !.NumberOfRemainingSuboperations = results[1],
              !.NumberOfFailedSuboperations = results[2] + results[1],
              !.NumberOfWarningSuboperations = results[3],
              !.NumberOfCompletedSuboperations = results[4]]

\* the assignments of a Failure or Warning response
FailureCounters(r, results) ==
    [r EXCEPT !.NumberOfRemainingSuboperations = NoneInt,
              !.NumberOfFailedSuboperations = results[2] + results[1],
              !.NumberOfWarningSuboperations = results[3],
              !.NumberOfCompletedSuboperations = results[4]]

\* the assignments of a final Success or Warning response
FinalCounters(r, results) ==
    [r EXCEPT !.NumberOfRemainingSuboperations = NoneInt,
              !.NumberOfFailedSuboperations = results[2],
              !.NumberOfWarningSuboperations = results[3],
              !.NumberOfCompletedSuboperations = results[4]]

\* WithFailedList that never keeps what the handler gave
AlwaysSynthesised(dataset, failed) == DsFailedList(failed)

\* "In case user didn't include it"
WithFailedList(dataset, failed) ==
    IF ~isinstance_Dataset(dataset)
       \/ "FailedSOPInstanceUIDList" \notin dataset.keys
    THEN DsFailedList(failed) ELSE dataset

\* SuccessOrWarning without `rsp.Status = 0xB000`
SuccessKeepsStatus(r, results, failed) ==
    IF results[2] # 0 \/ results[3] # 0
    THEN [r EXCEPT !.Identifier =
                       BytesIO(encode(DsFailedList(failed), transfer_syntax))]
    ELSE [r EXCEPT !.Identifier = NoIdentifier]

\* SuccessOrWarning taking the handler's Success as it is
SuccessNeverDowngraded(r, results, failed) ==
    [r EXCEPT !.Identifier = NoIdentifier]

\* the status and Identifier of a Success yielded by the handler
SuccessOrWarning(r, results, failed) ==
    IF results[2] # 0 \/ results[3] # 0
    THEN [r EXCEPT !.Status = StatusWarningB000,
                   !.Identifier =
                       BytesIO(encode(DsFailedList(failed), transfer_syntax))]
    ELSE [r EXCEPT !.Identifier = NoIdentifier]

\* "If not already done, send the final 'Success' or 'Warning' response"
FinalResponse(r, results, failed) ==
    FinalCounters(
        IF results[2] = 0 /\ results[3] = 0
        THEN [r EXCEPT !.Status = StatusSuccess]
        ELSE [r EXCEPT !.Status = StatusWarningB000,
                       !.Identifier =
                           BytesIO(encode(DsFailedList(failed), transfer_syntax))],
        results)

\* The (status, dataset) pairs of the retrieve handlers of the model.  The
\* dataset of the pair with index i carries the i-th SOP Instance UID.
InstanceUID(i) == <<"A", "B", "C", "D", "E">>[i + 1]
RetrieveStatusInputs ==
    {IntStatus(c) : c \in {StatusSuccess, StatusPending, StatusCancel,
                           StatusA900, StatusWarningB000, 65520}}
    \cup {DatasetStatus(StatusA900, NoneStr, 99, FALSE),
          DatasetStatus(NoneInt, "comment", NoneInt, FALSE),
          OtherStatus}
RetrievePulls(i) ==
    {EndOfProducer, Fault}
    \cup (IF i < MaxYields
          THEN {Yield(s, d) : s \in RetrieveStatusInputs,
                              d \in {NoneDs, OtherDs, DsUID(InstanceUID(i)), DsNoUID}}
               \cup {Yield(s, DsFailedList(<<"X">>)) :
                        s \in RetrieveStatusInputs \ {IntStatus(StatusPending)}}
          ELSE {})

\* the number of sub-operations a handler announces: no usable value
\* (NoneInt), a negative number, which int() takes as it takes any other, or
\* a count
SubopsInputs == {NoneInt} \cup {-2} \cup (0..MaxSubops)

(***************************************************************************)
(* QueryRetrieveServiceClass._get_scp                                      *)
(***************************************************************************)
\* SubOperationThenPending reporting before the sub-operation is sent
PendingThenSubOperation(c_store, r) == <<Send(r), c_store>>

\* `self.assoc.send_c_store(...)` returns (or raises), the tracker is updated,
\* and only then the Pending response with the new counters is sent
SubOperationThenPending(c_store, r) == <<c_store, Send(r)>>

\* One pass of the loop of _get_scp over the pair with index idx; `outcome`
\* is what the C-STORE sub-operation comes back with if the pass sends one.
GetPass(r0, results, failed, rsp_status, dataset, idx, message_id, outcome) ==
    LET r1 == validate_status(FaultToStatus(rsp_status, StatusC411), r0)
        category == statuses("get", r1.Status)
        same == [rsp |-> r0, results |-> results, failed |-> failed,
                 events |-> <<>>, return |-> FALSE, break |-> FALSE]
        terminal(r) == [same EXCEPT !.rsp = r, !.events = <<Send(r)>>,
                                    !.return = TRUE]
        identifier == BytesIO(encode(WithFailedList(dataset, failed),
                                     transfer_syntax))
        msg_id == SubOpMsgId(message_id, idx)
        store_status == StoreStatusCategory(outcome)
        invalid == InvalidDatasetResults(results)
        updated == UpdateResults(results, store_status)
    IN  IF SubOperationsComplete(results)
        THEN [same EXCEPT !.break = TRUE]
        ELSE IF category = NOT_IN_REGISTRY
        THEN terminal(r1)
        ELSE IF category = STATUS_CANCEL
        THEN terminal([PendingCounters(r1, results) EXCEPT
                          !.Identifier = identifier])
        ELSE IF category \in {STATUS_FAILURE, STATUS_WARNING}
        THEN terminal([FailureCounters(r1, results) EXCEPT
                          !.Identifier = identifier])
        ELSE IF category = STATUS_SUCCESS
        THEN terminal(FinalCounters(SuccessOrWarning(r1, results, failed),
                                    results))
        ELSE IF category = STATUS_PENDING /\ Truthy(dataset)
        THEN IF ~isinstance_Dataset(dataset)
             THEN LET r == PendingCounters(
                              [r1 EXCEPT !.Identifier = NoIdentifier], invalid)
                  IN  [same EXCEPT !.rsp = r, !.results = invalid,
                                   !.failed = Append(failed, ""),
                                   !.events = <<Send(r)>>]
             ELSE LET r == PendingCounters(
                              [r1 EXCEPT !.Identifier = NoIdentifier], updated)
                  IN  [same EXCEPT
                         !.rsp = r, !.results = updated,
                         !.failed = UpdateFailed(failed, store_status, dataset),
                         !.events = SubOperationThenPending(
                                        CStore("assoc", dataset, idx, msg_id,
                                               outcome), r)]
        ELSE [same EXCEPT !.rsp = r1]

\* whether a pass over this pair sends a C-STORE sub-operation
SendsSubOp(service, r0, results, rsp_status, dataset) ==
    /\ ~SubOperationsComplete(results)
    /\ statuses(service, validate_status(rsp_status, r0).Status) = STATUS_PENDING
    /\ Truthy(dataset)
    /\ isinstance_Dataset(dataset)

\* GetEarly answering every early return with "error in handler"
GetEarlyErrorInHandler(q, status) == [NewRsp(q) EXCEPT !.Status = StatusC411]

\* The response of an entry path of _get_scp that returns before the loop.
GetEarly(q, status) == [NewRsp(q) EXCEPT !.Status = status]

\* Entry of _get_scp up to the loop: trigger evt.EVT_C_GET, then take the
\* number of sub-operations from the producer.
GetBegin ==
    /\ pc = "idle"
    /\ \E q \in Requests,
          triggered \in {"fault", "generator"},
          first \in BOOLEAN,
          n \in SubopsInputs :
         /\ req' = q
         /\ svc' = "get"
         /\ handler' = IF triggered = "fault" THEN "fault" ELSE "user"
         /\ IF triggered = "fault"
            THEN /\ Return(GetEarly(q, StatusC411),
                           <<Send(GetEarly(q, StatusC411))>>)
                 /\ UNCHANGED <<store_results, no_suboperations>>
            ELSE IF ~first \/ n = NoneInt
            THEN /\ Return(GetEarly(q, StatusC413),
                           <<ProloguePull(first, n),
                             Send(GetEarly(q, StatusC413))>>)
                 /\ UNCHANGED <<store_results, no_suboperations>>
            ELSE /\ pc' = "get_loop"
                 /\ rsp' = NewRsp(q)
                 /\ log' = log \o <<ProloguePull(first, n)>>
                 /\ no_suboperations' = n
                 /\ store_results' = <<n, 0, 0, 0>>
    /\ UNCHANGED <<ii, failed_instances, store_assoc, cancelVars, midVars, routerVars, wrapperVars, pollVars>>

\* One pull of the wrapped producer and the pass of the loop over what it gave,
\* or the final response when the producer is exhausted or the loop breaks.
GetIter ==
    /\ pc = "get_loop"
    /\ \E pulled \in RetrievePulls(ii + 1) :
       \E outcome \in
            IF pulled.what = "yield"
               /\ SendsSubOp("get", rsp, store_results, pulled.status,
                             pulled.dataset)
            THEN StoreOutcomes ELSE {NoneInt} :
         LET w == _wrap_handler(pulled)
             pass == GetPass(rsp, store_results, failed_instances, w.status,
                             w.dataset, ii + 1, req.MessageID, outcome)
             final == FinalResponse(pass.rsp, pass.results, pass.failed)
         IN  IF w.what = "end"
             THEN /\ Return(FinalResponse(rsp, store_results, failed_instances),
                            <<Pull(pulled), Send(FinalResponse(rsp, store_results,
                                                         failed_instances))>>)
                  /\ UNCHANGED <<ii, store_results, failed_instances>>
             ELSE /\ ii' = ii + 1
                  /\ store_results' = pass.results
                  /\ failed_instances' = pass.failed
                  /\ IF pass.break
                     THEN Return(final, <<Pull(pulled), Send(final)>>)
                     ELSE /\ rsp' = pass.rsp
                          /\ log' = log \o <<Pull(pulled)>> \o pass.events
                          /\ pc' = IF pass.return THEN "done" ELSE "get_loop"
    /\ UNCHANGED <<svc, req, handler, no_suboperations, store_assoc,
                   cancelVars, midVars, routerVars, wrapperVars, pollVars>>

(***************************************************************************)
(* QueryRetrieveServiceClass._move_scp                                     *)
(***************************************************************************)
\* log entries of the outbound association
Associate(outcome) == [ev |-> "associate", outcome |-> outcome]
\* `destination = next(result)` and what it gave
DestinationPull(destination) ==
    [ev |-> "next", what |-> "destination", destination |-> destination]
\* an exit path that leaves out store_assoc.release()
ReleaseLeftOut == [ev |-> "none"]
Release == [ev |-> "release"]
SocketClose == [ev |-> "socket_close"]

\* ReleaseThenSend in the order of the paths that fail to associate
SendThenRelease(r) == <<Send(r), Release>>

\* `store_assoc.release()` followed by `self.dimse.send_msg(rsp, ...)`: how
\* every terminal path of the loop, and the code after the loop, ends
ReleaseThenSend(r) == <<Release, Send(r)>>

\* One pass of the loop of _move_scp over the pair with index idx.
MovePass(r0, results, failed, rsp_status, dataset, idx, message_id, outcome) ==
    LET r1 == validate_status(FaultToStatus(rsp_status, StatusC511), r0)
        category == statuses("move", r1.Status)
        same == [rsp |-> r0, results |-> results, failed |-> failed,
                 events |-> <<>>, return |-> FALSE, break |-> FALSE]
        terminal(r) == [same EXCEPT !.rsp = r, !.events = ReleaseThenSend(r),
                                    !.return = TRUE]
        identifier == BytesIO(encode(WithFailedList(dataset, failed),
                                     transfer_syntax))
        msg_id == SubOpMsgId(message_id, idx)
        store_status == StoreStatusCategory(outcome)
        invalid == InvalidDatasetResults(results)
        updated == UpdateResults(results, store_status)
    IN  IF SubOperationsComplete(results)
        THEN [same EXCEPT !.break = TRUE]
        ELSE IF category = NOT_IN_REGISTRY
        THEN terminal(r1)
        ELSE IF category = STATUS_CANCEL
        THEN terminal(PendingCounters([r1 EXCEPT !.Identifier = identifier],
                                      results))
        ELSE IF category \in {STATUS_FAILURE, STATUS_WARNING}
        THEN terminal(FailureCounters([r1 EXCEPT !.Identifier = identifier],
                                      results))
        ELSE IF category = STATUS_SUCCESS
        THEN terminal(FinalCounters(SuccessOrWarning(r1, results, failed),
                                    results))
        ELSE IF category = STATUS_PENDING /\ Truthy(dataset)
        THEN IF ~isinstance_Dataset(dataset)
             THEN LET r == PendingCounters(
                              [r1 EXCEPT !.Identifier = NoIdentifier], invalid)
                  IN  [same EXCEPT !.rsp = r, !.results = invalid,
                                   !.failed = Append(failed, ""),
                                   !.events = <<Send(r)>>]
             ELSE LET r == PendingCounters(
                              [r1 EXCEPT !.Identifier = NoIdentifier], updated)
                  IN  [same EXCEPT
                         !.rsp = r, !.results = updated,
                         !.failed = UpdateFailed(failed, store_status, dataset),
                         !.events = <<CStore("store_assoc", dataset, idx,
                                             msg_id, outcome),
                                      Send(r)>>]
        ELSE [same EXCEPT !.rsp = r1]

\* associate() requested as soon as the destination is known
AssociateBeforeCount(destination, second, n, associated) ==
    <<DestinationPull(destination), Associate(associated),
      ProloguePull(second, n)>>

\* `destination = next(result)`, `no_suboperations = int(next(result))`, the
\* test `None in destination`, and only then `self.ae.associate(...)`
AssociateAfterPrologue(destination, second, n, associated) ==
    <<DestinationPull(destination), ProloguePull(second, n),
      Associate(associated)>>

\* what the handler yields as destination
DestinationInputs == {"missing", "addr_port", "has_None", "not_a_pair"}

\* MoveEarly answering every early return with "bad handler AE destination"
MoveEarlyBadDestination(q, status) == [NewRsp(q) EXCEPT !.Status = StatusC515]

\* The response of an entry path of _move_scp that returns before the loop.
MoveEarly(q, status) == [NewRsp(q) EXCEPT !.Status = status]

\* Entry of _move_scp up to the loop: decode the Identifier, trigger
\* evt.EVT_C_MOVE, take the destination and the number of sub-operations from
\* the producer, and request the association with the destination.
MoveBegin ==
    /\ pc = "idle"
    /\ \E q \in Requests,
          identifier \in IdentifierInputs,
          triggered \in {"fault", "generator"},
          destination \in DestinationInputs,
          second \in BOOLEAN,
          n \in SubopsInputs,
          associated \in {"raises", "established", "not_established"} :
         /\ req' = [q EXCEPT !.Identifier = identifier]
         /\ svc' = "move"
         /\ handler' = IF decode(identifier, transfer_syntax) = "Exception"
                       THEN "none"
                       ELSE IF triggered = "fault" THEN "fault" ELSE "user"
         /\ IF decode(identifier, transfer_syntax) = "Exception"
            THEN /\ Return([MoveEarly(q, StatusC510) EXCEPT
                              !.ErrorComment = "Unable to decode the dataset"],
                           <<Send([MoveEarly(q, StatusC510) EXCEPT
                              !.ErrorComment = "Unable to decode the dataset"])>>)
                 /\ UNCHANGED <<store_results, no_suboperations, store_assoc>>
            ELSE IF triggered = "fault"
            THEN /\ Return(MoveEarly(q, StatusC511),
                           <<Send(MoveEarly(q, StatusC511))>>)
                 /\ UNCHANGED <<store_results, no_suboperations, store_assoc>>
            ELSE IF destination = "missing"
            THEN /\ Return(MoveEarly(q, StatusC514),
                           <<DestinationPull(destination), Send(MoveEarly(q, StatusC514))>>)
                 /\ UNCHANGED <<store_results, no_suboperations, store_assoc>>
            ELSE IF ~second
            THEN /\ Return(MoveEarly(q, StatusC514),
                           <<DestinationPull(destination),
                             ProloguePull(second, n),
                             Send(MoveEarly(q, StatusC514))>>)
                 /\ UNCHANGED <<store_results, no_suboperations, store_assoc>>
            ELSE IF n = NoneInt
            THEN /\ Return(MoveEarly(q, StatusC513),
                           <<DestinationPull(destination),
                             ProloguePull(second, n),
                             Send(MoveEarly(q, StatusC513))>>)
                 /\ UNCHANGED <<store_results, no_suboperations, store_assoc>>
            ELSE IF destination = "has_None"
            THEN /\ Return(MoveEarly(q, StatusA801),
                           <<DestinationPull(destination),
                             ProloguePull(second, n),
                             Send(MoveEarly(q, StatusA801))>>)
                 /\ no_suboperations' = n
                 /\ UNCHANGED <<store_results, store_assoc>>
            ELSE IF destination = "not_a_pair"
            THEN /\ Return(MoveEarly(q, StatusC515),
                           <<DestinationPull(destination),
                             ProloguePull(second, n),
                             Send(MoveEarly(q, StatusC515))>>)
                 /\ no_suboperations' = n
                 /\ UNCHANGED <<store_results, store_assoc>>
            ELSE IF associated = "raises"
            THEN /\ Return(MoveEarly(q, StatusC515),
                           AssociateAfterPrologue(destination, second, n, associated)
                           \o <<Send(MoveEarly(q, StatusC515))>>)
                 /\ no_suboperations' = n
                 /\ UNCHANGED <<store_results, store_assoc>>
            ELSE IF associated = "not_established"
            THEN /\ Return(MoveEarly(q, StatusA801),
                           AssociateAfterPrologue(destination, second, n, associated)
                           \o <<Send(MoveEarly(q, StatusA801)), SocketClose>>)
                 /\ no_suboperations' = n
                 /\ store_results' = <<n, 0, 0, 0>>
                 /\ store_assoc' = "closed"
            ELSE /\ pc' = "move_loop"
                 /\ rsp' = NewRsp(q)
                 /\ log' = log \o AssociateAfterPrologue(destination, second, n,
                                                        associated)
                 /\ no_suboperations' = n
                 /\ store_results' = <<n, 0, 0, 0>>
                 /\ store_assoc' = "established"
    /\ UNCHANGED <<ii, failed_instances, cancelVars, midVars, routerVars, wrapperVars, pollVars>>

\* what self.dimse.send_msg(rsp, context.context_id) does inside the loop of
\* _move_scp: it returns, or it fails with a timeout of the transport, which
\* reaches _move_scp as an exception of the call
SendOutcomes == {"ok", "timeout"}

\* the response the transport did not take
SendTimeout(r) == [ev |-> "send_timeout", rsp |-> r]

\* The events of a pass whose send_msg call fails instead of returning:
\* what the pass did before the call, and the failed send.
WithSendTimeout(events) ==
    LET k == CHOOSE i \in 1..Len(events) :
                 /\ events[i].ev = "send"
                 /\ \A j \in 1..(i - 1) : events[j].ev # "send"
    IN  SubSeq(events, 1, k - 1) \o <<SendTimeout(events[k].rsp)>>

\* One pull of the wrapped producer and the pass of the loop over what it gave,
\* or the release of the outbound association and the final response when the
\* producer is exhausted or the loop breaks.  No statement of the loop is
\* inside a try block that covers send_msg: when a send inside the loop
\* fails, the exception leaves _move_scp from that line (pc = "raised") and
\* nothing after it runs.
MoveIter ==
    /\ pc = "move_loop"
    /\ \E pulled \in RetrievePulls(ii + 1), sent \in SendOutcomes :
       \E outcome \in
            IF pulled.what = "yield"
               /\ SendsSubOp("move", rsp, store_results, pulled.status,
                             pulled.dataset)
            THEN StoreOutcomes ELSE {NoneInt} :
         LET w == _wrap_handler(pulled)
             pass == MovePass(rsp, store_results, failed_instances, w.status,
                              w.dataset, ii + 1, req.MessageID, outcome)
             final == FinalResponse(pass.rsp, pass.results, pass.failed)
         IN  IF w.what = "end"
             THEN /\ Return(FinalResponse(rsp, store_results, failed_instances),
                            <<Pull(pulled)>> \o
                            ReleaseThenSend(FinalResponse(rsp, store_results,
                                                          failed_instances)))
                  /\ store_assoc' = "released"
                  /\ UNCHANGED <<ii, store_results, failed_instances>>
             ELSE /\ ii' = ii + 1
                  /\ store_results' = pass.results
                  /\ failed_instances' = pass.failed
                  /\ IF pass.break
                     THEN /\ Return(final, <<Pull(pulled)>> \o ReleaseThenSend(final))
                          /\ store_assoc' = "released"
                     ELSE IF sent = "timeout" /\ pass.events # <<>>
                     THEN /\ rsp' = pass.rsp
                          /\ log' = log \o <<Pull(pulled)>>
                                        \o WithSendTimeout(pass.events)
                          /\ pc' = "raised"
                          /\ store_assoc' = IF pass.return THEN "released"
                                            ELSE store_assoc
                     ELSE /\ rsp' = pass.rsp
                          /\ log' = log \o <<Pull(pulled)>> \o pass.events
                          /\ pc' = IF pass.return THEN "done" ELSE "move_loop"
                          /\ store_assoc' = IF pass.return THEN "released"
                                            ELSE store_assoc
    /\ UNCHANGED <<svc, req, handler, no_suboperations, cancelVars, midVars, routerVars, wrapperVars, pollVars>>

(***************************************************************************)
(* RelevantPatientInformationQueryServiceClass.SCP                         *)
(***************************************************************************)
\* what `(rsp_status, rsp_identifier) = next(responses)` after the trigger can
\* give: a pair; StopIteration (the producer yields nothing); TypeError (what
\* the trigger returned is no producer, what was yielded is no pair, or the
\* trigger or the handler raised a TypeError of its own: the except clause
\* cannot tell them apart); or any other exception of the trigger or the
\* handler
RpiqFirst ==
    {[what |-> "StopIteration", status |-> OtherStatus, dataset |-> NoneDs],
     [what |-> "TypeError", status |-> OtherStatus, dataset |-> NoneDs],
     Fault}
    \cup {Yield(s, d) : s \in StatusInputs, d \in FindIdentifiers}

\* RpiqPendingThenSuccess without the final response
RpiqPendingOnly(pending) == <<pending>>

\* "Send pending response", then "Send final success response" on the same
\* primitive
RpiqPendingThenSuccess(pending) ==
    <<pending, [pending EXCEPT !.Status = StatusSuccess]>>

\* the responses the protocol sends for the first value `first`, in order
RpiqResponses(r0, first) ==
    LET r1 == validate_status(first.status, r0)
        category == statuses("rpiq", r1.Status)
        bytestream == encode(first.dataset, transfer_syntax)
        pending == [r1 EXCEPT !.Identifier = BytesIO(bytestream)]
    IN  IF first.what \in {"StopIteration", "TypeError"}
        THEN <<[r0 EXCEPT !.Status = StatusSuccess]>>
        ELSE IF first.what = "fault"
        THEN <<[r0 EXCEPT !.Status = StatusC311]>>
        ELSE IF category = NOT_IN_REGISTRY
        THEN <<r1>>
        ELSE IF category \in {STATUS_CANCEL, STATUS_FAILURE, STATUS_SUCCESS}
        THEN <<r1>>
        ELSE IF category = STATUS_PENDING
        THEN IF bytestream = EmptyBytes
             THEN <<[r1 EXCEPT !.Status = StatusC312]>>
             ELSE RpiqPendingThenSuccess(pending)
        ELSE <<>>

RpiqSCP ==
    /\ pc = "idle"
    /\ \E q \in Requests, identifier \in IdentifierInputs, first \in RpiqFirst :
         LET failed == [NewRsp(q) EXCEPT
                          !.Status = StatusC310,
                          !.ErrorComment = "Unable to decode the dataset"]
             out == RpiqResponses(NewRsp(q), first)
             decoded == decode(identifier, transfer_syntax) # "Exception"
         IN  /\ req' = [q EXCEPT !.Identifier = identifier]
             /\ svc' = "rpiq"
             /\ handler' = IF decoded THEN "user" ELSE "none"
             /\ IF ~decoded
                THEN Return(failed, <<Send(failed)>>)
                ELSE Return(IF out = <<>> THEN validate_status(first.status, NewRsp(q))
                            ELSE out[Len(out)],
                            <<Pull(first)>> \o [k \in 1..Len(out) |-> Send(out[k])])
    /\ UNCHANGED <<ii, store_results, failed_instances, no_suboperations,
                   store_assoc, cancelVars, midVars, routerVars, wrapperVars, pollVars>>

(***************************************************************************)
(* The association takes the next request.                                 *)
(***************************************************************************)
NextRequest ==
    /\ pc = "done"
    /\ pc' = "idle"
    /\ svc' = "none"
    /\ req' = NoRequest
    /\ rsp' = NewRsp(NoRequest)
    /\ handler' = "none"
    /\ ii' = -1
    /\ store_results' = <<0, 0, 0, 0>>
    /\ failed_instances' = <<>>
    /\ no_suboperations' = NoneInt
    /\ store_assoc' = "none"
    /\ log' = <<>>
    /\ UNCHANGED <<cancelVars, midVars, routerVars, wrapperVars, pollVars>>

(***************************************************************************)
(* ServiceClass.is_cancelled and the DIMSE provider's cancel_req map.      *)
(***************************************************************************)
\* the Message IDs C-CANCELs are received and probed for
CancelIDs == {1, 2, 7}

\* the value is_cancelled(msg_id) returns
is_cancelled(cancel_map, msg_id) == msg_id \in cancel_map

\* is_cancelled without `del self.dimse.cancel_req[msg_id]`
is_cancelled_map_no_del(cancel_map, msg_id) == cancel_map

\* dimse.cancel_req after is_cancelled(msg_id)
is_cancelled_map(cancel_map, msg_id) ==
    IF msg_id \in cancel_map THEN cancel_map \ {msg_id} ELSE cancel_map

\* The DIMSE provider receives a C-CANCEL whose Message ID Being Responded To
\* is m and records it.
RecordCancel ==
    /\ \E m \in CancelIDs :
         /\ cancel_req' = cancel_req \cup {m}
         /\ consumed' = consumed \ {m}
    /\ UNCHANGED <<probe, protoVars, midVars, routerVars, wrapperVars, pollVars>>

\* A handler calls is_cancelled(m).
IsCancelledCall ==
    /\ \E m \in CancelIDs :
         /\ probe' = [msg_id |-> m, result |-> is_cancelled(cancel_req, m),
                      calls |-> 1 - probe.calls]
         /\ cancel_req' = is_cancelled_map(cancel_req, m)
         /\ consumed' = IF is_cancelled(cancel_req, m)
                        THEN consumed \cup {m} ELSE consumed
    /\ UNCHANGED <<protoVars, midVars, routerVars, wrapperVars, pollVars>>

NextCancel ==
    \/ RecordCancel
    \/ IsCancelledCall

SpecCancel == Init /\ [][NextCancel]_vars

(***************************************************************************)
(* The Message ID of a sub-operation as a function of the request's        *)
(* Message ID and the loop index.                                          *)
(***************************************************************************)
MessageIDInputs == {0, 1, 2, 7, 32768, 65533, 65534, 65535}
IndexInputs == {0, 1, 2, 3, 65533, 65534, 65535, 65536}

InitMsgId ==
    /\ Idle
    /\ cancel_req = {}
    /\ probe = [msg_id |-> NoneInt, result |-> FALSE, calls |-> 0]
    /\ consumed = {}
    /\ mid_in \in MessageIDInputs \X IndexInputs
    /\ mid_out = NoneInt
    /\ router = NoDispatch
    /\ wrapper = NoWrapper
    /\ served = NoServed
    /\ poll = NoPoll

\* the pass with index mid_in[2] of a request with Message ID mid_in[1]
\* computes the msg_id of its sub-operation
ComputeMsgId ==
    /\ mid_out = NoneInt
    /\ mid_out' = SubOpMsgId(mid_in[1], mid_in[2])
    /\ UNCHANGED <<mid_in, protoVars, cancelVars, routerVars, wrapperVars, pollVars>>

NextMsgId == ComputeMsgId

SpecMsgId == InitMsgId /\ [][NextMsgId]_vars

(***************************************************************************)
(* SCP(req, context) of the Query/Retrieve service class and of the        *)
(* classes derived from it: which protocol the abstract syntax selects.    *)
(***************************************************************************)
\* the abstract syntaxes QueryRetrieveServiceClass.SCP runs _find_scp for
QR_FIND_UIDS ==
    {"1.2.840.10008.5.1.4.1.2.1.1", "1.2.840.10008.5.1.4.1.2.2.1",
     "1.2.840.10008.5.1.4.1.2.3.1", "1.2.840.10008.5.1.4.20.1",
     "1.2.840.10008.5.1.4.38.2", "1.2.840.10008.5.1.4.39.2",
     "1.2.840.10008.5.1.4.43.2", "1.2.840.10008.5.1.4.44.2",
     "1.2.840.10008.5.1.4.45.2", "1.2.840.10008.5.1.4.1.1.200.4"}
\* the abstract syntaxes it runs _get_scp for
QR_GET_UIDS ==
    {"1.2.840.10008.5.1.4.1.2.1.3", "1.2.840.10008.5.1.4.1.2.2.3",
     "1.2.840.10008.5.1.4.1.2.3.3", "1.2.840.10008.5.1.4.1.2.4.3",
     "1.2.840.10008.5.1.4.1.2.5.3", "1.2.840.10008.5.1.4.20.3",
     "1.2.840.10008.5.1.4.38.4", "1.2.840.10008.5.1.4.39.4",
     "1.2.840.10008.5.1.4.43.4", "1.2.840.10008.5.1.4.44.4",
     "1.2.840.10008.5.1.4.45.4", "1.2.840.10008.5.1.4.1.1.200.6"}
\* the abstract syntaxes it runs _move_scp for
QR_MOVE_UIDS ==
    {"1.2.840.10008.5.1.4.1.2.1.2", "1.2.840.10008.5.1.4.1.2.2.2",
     "1.2.840.10008.5.1.4.1.2.3.2", "1.2.840.10008.5.1.4.1.2.4.2",
     "1.2.840.10008.5.1.4.20.2", "1.2.840.10008.5.1.4.38.3",
     "1.2.840.10008.5.1.4.39.3", "1.2.840.10008.5.1.4.43.3",
     "1.2.840.10008.5.1.4.44.3", "1.2.840.10008.5.1.4.45.3",
     "1.2.840.10008.5.1.4.1.1.200.5"}
\* Modality Worklist Information Model - FIND
BWM_UIDS == {"1.2.840.10008.5.1.4.31"}

\* what SCP calls, or the error it raises
QueryRetrieveSCP(abstract_syntax) ==
    IF abstract_syntax \in QR_FIND_UIDS THEN "_find_scp"
    ELSE IF abstract_syntax \in QR_GET_UIDS THEN "_get_scp"
    ELSE IF abstract_syntax \in QR_MOVE_UIDS THEN "_move_scp"
    ELSE "ValueError"
BasicWorklistManagementSCP(abstract_syntax) ==
    IF abstract_syntax \in BWM_UIDS THEN "_find_scp" ELSE "ValueError"
SubstanceAdministrationQuerySCP(abstract_syntax) == "_find_scp"

ServiceClasses ==
    {"QueryRetrieve", "BasicWorklistManagement", "SubstanceAdministrationQuery"}
SCP(cls, abstract_syntax) ==
    CASE cls = "QueryRetrieve" -> QueryRetrieveSCP(abstract_syntax)
      [] cls = "BasicWorklistManagement" ->
            BasicWorklistManagementSCP(abstract_syntax)
      [] cls = "SubstanceAdministrationQuery" ->
            SubstanceAdministrationQuerySCP(abstract_syntax)

\* The abstract syntaxes of the presentation contexts of the model: those of
\* the tables above, the Product Characteristics and Substance Approval
\* queries, the Relevant Patient Information queries and an unregistered UID.
AbstractSyntaxInputs ==
    QR_FIND_UIDS \cup QR_GET_UIDS \cup QR_MOVE_UIDS \cup BWM_UIDS
    \cup {"1.2.840.10008.5.1.4.41", "1.2.840.10008.5.1.4.42",
          "1.2.840.10008.5.1.4.37.1", "1.2.3"}

InitRouter ==
    /\ Idle
    /\ cancel_req = {}
    /\ probe = [msg_id |-> NoneInt, result |-> FALSE, calls |-> 0]
    /\ consumed = {}
    /\ mid_in = <<NoneInt, NoneInt>>
    /\ mid_out = NoneInt
    /\ router \in {[cls |-> c, abstract_syntax |-> u, called |-> NoneStr] :
                      c \in ServiceClasses, u \in AbstractSyntaxInputs}
    /\ wrapper = NoWrapper
    /\ served = NoServed
    /\ poll = NoPoll

\* the association hands a request received under the presentation context
\* to the SCP of its service class
Dispatch ==
    /\ router.called = NoneStr
    /\ router' = [router EXCEPT !.called = SCP(router.cls, router.abstract_syntax)]
    /\ UNCHANGED <<protoVars, cancelVars, midVars, wrapperVars, pollVars>>

NextRouter == Dispatch

SpecRouter == InitRouter /\ [][NextRouter]_vars

(***************************************************************************)
(* ServiceClass._wrap_handler as a generator: `handler` is what the user's *)
(* producer does pull after pull, the consumer calls next() on the wrapped *)
(* generator.                                                              *)
(***************************************************************************)
\* what a producer yields
ProducerValues ==
    {Yield(IntStatus(StatusPending), DsUID("A")),
     Yield(IntStatus(StatusSuccess), NoneDs),
     Yield(OtherStatus, OtherDs)}

\* the producers: up to MaxYields values, then the end or a fault
Producers ==
    {values \o <<last>> :
        values \in UNION {[1..n -> ProducerValues] : n \in 0..MaxYields},
        last \in {EndOfProducer, Fault}}

InitWrapper ==
    /\ Idle
    /\ cancel_req = {}
    /\ probe = [msg_id |-> NoneInt, result |-> FALSE, calls |-> 0]
    /\ consumed = {}
    /\ mid_in = <<NoneInt, NoneInt>>
    /\ mid_out = NoneInt
    /\ router = NoDispatch
    /\ wrapper \in {[handler |-> h, pulls |-> 0, yielded |-> <<>>,
                      at |-> "try"] : h \in Producers}
    /\ served = NoServed
    /\ poll = NoPoll

\* next() on the wrapped generator.  Inside the try block it pulls the
\* producer once: a value is yielded as it is, the end of the producer ends
\* the generator, a fault is yielded as (exception, trace) from the except
\* clause.  Resumed in the except clause, the generator has nothing left to
\* run and ends without touching the producer.
WrapperNext ==
    /\ wrapper.at \in {"try", "except"}
    /\ wrapper' =
         IF wrapper.at = "except"
         THEN [wrapper EXCEPT !.at = "return"]
         ELSE LET pulled == wrapper.handler[wrapper.pulls + 1]
                  w == _wrap_handler(pulled)
              IN  IF w.what = "end"
                  THEN [wrapper EXCEPT !.pulls = @ + 1, !.at = "return"]
                  ELSE [wrapper EXCEPT
                          !.pulls = @ + 1,
                          !.yielded = Append(@, w),
                          !.at = IF pulled.what = "fault" THEN "except"
                                 ELSE "try"]
    /\ UNCHANGED <<protoVars, cancelVars, midVars, routerVars, pollVars>>

NextWrapper == WrapperNext

SpecWrapper == InitWrapper /\ [][NextWrapper]_vars

Next ==
    \/ EchoSCP
    \/ StoreSCP
    \/ FindBegin
    \/ FindIter
    \/ GetBegin
    \/ GetIter
    \/ MoveBegin
    \/ MoveIter
    \/ RpiqSCP
    \/ NextRequest

Spec == Init /\ [][Next]_vars

(***************************************************************************)
(* Properties.                                                             *)
(***************************************************************************)
\* positions of the responses sent for the current request
SendIdx == {k \in 1..Len(log) : log[k].ev = "send"}
\* the category the running service class gives the status of a response
Category(r) == statuses(svc, r.Status)
IsPending(r) == Category(r) = STATUS_PENDING
\* positions of the terminal responses
TerminalIdx == {k \in SendIdx : ~IsPending(log[k].rsp)}
LastSent == log[CHOOSE k \in SendIdx : \A j \in SendIdx : j <= k].rsp

\* C1: every request handled by a protocol gets exactly one terminal response
\* (one whose status the service class does not class as Pending), every
\* Pending response is sent before it and nothing is sent after it.
C1_Terminality ==
    /\ Cardinality(TerminalIdx) <= 1
    /\ \A k \in TerminalIdx : \A j \in SendIdx : j <= k
    /\ pc = "done" => Cardinality(TerminalIdx) = 1

\* a C-FIND request whose producer gave two matches and then faulted is over
C1_Witness ==
    /\ pc = "done"
    /\ svc = "find"
    /\ Cardinality(SendIdx) = 3
    /\ \E k \in 1..Len(log) : log[k].ev = "next" /\ log[k].what = "fault"
    /\ LastSent.Status = StatusC311

\* C2: in C-GET and C-MOVE the four counters of every Pending response add up
\* to the number of sub-operations the handler announced.
C2_CounterConservation ==
    svc \in {"get", "move"} =>
        \A k \in SendIdx :
            IsPending(log[k].rsp) =>
                log[k].rsp.NumberOfCompletedSuboperations
                + log[k].rsp.NumberOfFailedSuboperations
                + log[k].rsp.NumberOfWarningSuboperations
                + log[k].rsp.NumberOfRemainingSuboperations = no_suboperations

\* C3 as stated: in C-GET and C-MOVE the number of remaining sub-operations is
\* absent on every response whose status is not Pending.
C3_RemainingAbsentOnTerminal ==
    svc \in {"get", "move"} =>
        \A k \in TerminalIdx :
            log[k].rsp.NumberOfRemainingSuboperations = NoneInt

\* C3 as amended: in C-GET and C-MOVE the number of remaining sub-operations
\* is absent on every response of category Success, Warning or Failure, and
\* on a Cancel response it is the tracker's remaining count.
C3_RemainingAbsentUnlessCancel ==
    svc \in {"get", "move"} =>
        \A k \in SendIdx :
            /\ Category(log[k].rsp) \in
                   {STATUS_SUCCESS, STATUS_WARNING, STATUS_FAILURE}
               => log[k].rsp.NumberOfRemainingSuboperations = NoneInt
            /\ Category(log[k].rsp) = STATUS_CANCEL
               => log[k].rsp.NumberOfRemainingSuboperations = store_results[1]

\* a C-MOVE handler yielded a Failure after a Pending response that reported
\* sub-operations remaining
C3_Witness ==
    /\ pc = "done"
    /\ svc = "move"
    /\ store_results[1] > 0
    /\ Cardinality(SendIdx) >= 2
    /\ Category(LastSent) = STATUS_FAILURE
    /\ \E k \in SendIdx : log[k].rsp.NumberOfRemainingSuboperations > 0

\* C4: the msg_id of the sub-operation of the pass with index i is
\* (request MessageID + i + 1) mod 65536.
C4_MsgIdModulo ==
    \A k \in 1..Len(log) :
        log[k].ev = "c_store" =>
            log[k].msg_id = (req.MessageID + log[k].ii + 1) % (MaxMessageID + 1)

\* C5: the msg_id computed for a sub-operation lies in 0..65535, for every
\* request MessageID and every loop index.
C5_MsgIdRange ==
    mid_out # NoneInt => mid_out \in 0..MaxMessageID

\* C6: in C-FIND a response that is not Pending has no Identifier, and a
\* Pending response carries the encoded identifier of the pair just pulled.
C6_FindIdentifier ==
    svc = "find" =>
        \A k \in SendIdx :
            IF IsPending(log[k].rsp)
            THEN /\ k > 1
                 /\ log[k - 1].ev = "next"
                 /\ log[k - 1].what = "yield"
                 /\ encode(log[k - 1].dataset, transfer_syntax) # EmptyBytes
                 /\ log[k].rsp.Identifier =
                        BytesIO(encode(log[k - 1].dataset, transfer_syntax))
            ELSE log[k].rsp.Identifier = NoIdentifier

\* a C-FIND request answered by two Pending responses with different
\* identifiers and a terminal response
C6_Witness ==
    /\ pc = "done"
    /\ svc = "find"
    /\ \E j, k \in SendIdx :
         /\ j < k
         /\ IsPending(log[j].rsp)
         /\ IsPending(log[k].rsp)
         /\ log[j].rsp.Identifier # log[k].rsp.Identifier
    /\ ~IsPending(LastSent)

\* C7: in the Relevant-Patient protocol the 0x0000 response sent right after
\* the Pending response has no Identifier.
C7_RpiqFinalNoIdentifier ==
    svc = "rpiq" =>
        \A k \in SendIdx :
            (/\ k > 1
             /\ log[k - 1].ev = "send"
             /\ IsPending(log[k - 1].rsp)
             /\ log[k].rsp.Status = StatusSuccess)
            => log[k].rsp.Identifier = NoIdentifier

\* C8: in C-GET and C-MOVE a Pending response has no Identifier, a 0x0000
\* response has no Identifier, and a response has an Identifier only if its
\* category is Cancel, Failure or Warning.
C8_RetrieveIdentifier ==
    svc \in {"get", "move"} =>
        \A k \in SendIdx :
            /\ IsPending(log[k].rsp) => log[k].rsp.Identifier = NoIdentifier
            /\ log[k].rsp.Status = StatusSuccess
               => log[k].rsp.Identifier = NoIdentifier
            /\ log[k].rsp.Identifier # NoIdentifier
               => Category(log[k].rsp) \in
                      {STATUS_CANCEL, STATUS_FAILURE, STATUS_WARNING}

\* a C-GET handler yielded Success after a sub-operation failed: the terminal
\* response is the Warning with the failed instances, after a Pending response
C8_Witness ==
    /\ pc = "done"
    /\ svc = "get"
    /\ \E k \in 1..Len(log) :
         /\ log[k].ev = "next"
         /\ log[k].what = "yield"
         /\ log[k].status = IntStatus(StatusSuccess)
    /\ \E k \in SendIdx : IsPending(log[k].rsp)
    /\ LastSent.Status = StatusWarningB000
    /\ LastSent.Identifier # NoIdentifier

\* the implementation-reserved status of a handler fault
FaultStatus == [find |-> StatusC311, get |-> StatusC411, move |-> StatusC511]

\* C9: when the producer faults in the main loop of C-FIND, C-GET or C-MOVE
\* the terminal response has status 0xC311, 0xC411 or 0xC511.
C9_FaultGivesFailure ==
    (/\ pc = "done"
     /\ svc \in {"find", "get", "move"}
     /\ \E k \in 1..Len(log) : log[k].ev = "next" /\ log[k].what = "fault")
    => LastSent.Status = FaultStatus[svc]

\* C10: a call is_cancelled(m) made after a call that returned true, with no
\* C-CANCEL for m recorded in between, returns false; a call that returns
\* false leaves the cancel map as it is; a call for m leaves the entries of
\* the other message ids alone.
C10_CancelProbeOneShot ==
    [][probe'.calls # probe.calls =>
          /\ probe'.msg_id \in consumed => probe'.result = FALSE
          /\ probe'.result = FALSE => cancel_req' = cancel_req
          /\ cancel_req' \ {probe'.msg_id} = cancel_req \ {probe'.msg_id}]_vars

\* is_cancelled(m) has just returned false for an m it reported before, while
\* the C-CANCEL of another message id is still recorded
C10_Witness ==
    /\ probe.msg_id \in consumed
    /\ probe.result = FALSE
    /\ cancel_req # {}

\* C11: every response of every protocol has MessageIDBeingRespondedTo equal
\* to the MessageID of the request, whatever the handler gave as status.
C11_MessageIdEchoed ==
    \A k \in SendIdx :
        log[k].rsp.MessageIDBeingRespondedTo = req.MessageID

\* what the producer was pulled for, and the responses sent, in program order
Pulls == SelectSeq(log, LAMBDA e : e.ev = "next")
Sent == SelectSeq(log, LAMBDA e : e.ev = "send")
\* a pulled pair whose status is a Pending code and whose identifier encodes
PendingMatch(e) ==
    /\ e.what = "yield"
    /\ e.status.kind \in {"int", "Dataset"}
    /\ e.status.Status \in {StatusPending, StatusPendingWarning}
    /\ encode(e.dataset, transfer_syntax) # EmptyBytes

\* C12: in C-FIND, when the handler yields n Pending pairs with encodable
\* identifiers and then ends, exactly n+1 responses are sent: the n Pending
\* responses with the encoded identifiers in yield order, then one response
\* with status 0x0000 and no Identifier.
C12_FindMatchesThenSuccess ==
    (/\ svc = "find"
     /\ pc = "done"
     /\ Len(Pulls) >= 1
     /\ Pulls[Len(Pulls)].what = "end"
     /\ \A i \in 1..(Len(Pulls) - 1) : PendingMatch(Pulls[i]))
    => LET n == Len(Pulls) - 1
       IN  /\ Len(Sent) = n + 1
           /\ \A i \in 1..n :
                /\ Sent[i].rsp.Status = Pulls[i].status.Status
                /\ Sent[i].rsp.Identifier =
                       BytesIO(encode(Pulls[i].dataset, transfer_syntax))
           /\ Sent[n + 1].rsp.Status = StatusSuccess
           /\ Sent[n + 1].rsp.Identifier = NoIdentifier

\* a C-FIND handler yielded two matches, A then B, and ended
C12_Witness ==
    /\ svc = "find"
    /\ pc = "done"
    /\ Len(Pulls) = 3
    /\ PendingMatch(Pulls[1]) /\ Pulls[1].dataset = DsUID("A")
    /\ PendingMatch(Pulls[2]) /\ Pulls[2].dataset = DsUID("B")
    /\ Pulls[3].what = "end"
    /\ Len(Sent) = 3

\* the status code a yielded status ends up as on the response
YieldedCode(status) == validate_status(status, NewRsp(req)).Status

\* C13: in C-FIND, once the handler yields a status of category Cancel,
\* Failure or Success, or one that is not in the FIND registry, the response
\* with that status is sent once, the producer is not pulled again and no
\* final 0x0000 response follows.
C13_FindTerminalYield ==
    svc = "find" =>
        \A k \in 1..Len(log) :
            (/\ log[k].ev = "next"
             /\ log[k].what = "yield"
             /\ statuses("find", YieldedCode(log[k].status)) \in
                    {STATUS_CANCEL, STATUS_FAILURE, STATUS_SUCCESS,
                     NOT_IN_REGISTRY})
            => /\ pc = "done"
               /\ Len(log) = k + 1
               /\ log[k + 1].ev = "send"
               /\ log[k + 1].rsp.Status = YieldedCode(log[k].status)

\* a C-FIND handler yielded a match and then Cancel
C13_Witness ==
    /\ svc = "find"
    /\ pc = "done"
    /\ Len(Pulls) = 2
    /\ PendingMatch(Pulls[1])
    /\ Pulls[2].what = "yield"
    /\ Pulls[2].status = IntStatus(StatusCancel)
    /\ Len(Sent) = 2
    /\ Sent[2].rsp.Status = StatusCancel
    /\ Sent[2].rsp.Identifier = NoIdentifier

\* the four counters of a response, in the order of the tracker
Counters(r) ==
    <<r.NumberOfRemainingSuboperations, r.NumberOfFailedSuboperations,
      r.NumberOfWarningSuboperations, r.NumberOfCompletedSuboperations>>
\* the failed-instance list with the SOP Instance UID of a sub-operation
\* appended, if its dataset has one
WithInstance(failed, uid) == IF uid # "" THEN Append(failed, uid) ELSE failed

\* C14: in C-GET, a pass that sends a C-STORE sub-operation updates the
\* tracker from its outcome: Success adds 1 to completed; Warning adds 1 to
\* warning and appends the SOP Instance UID to the failed instances; Failure,
\* or a fault of the sub-operation, adds 1 to failed and appends the UID;
\* remaining goes down by 1 in every case; and the Pending response sent next
\* carries the updated counters.
C14_GetTrackerUpdate ==
    [][(/\ svc = "get"
        /\ Len(log') = Len(log) + 3
        /\ log'[Len(log) + 2].ev = "c_store")
       => LET e == log'[Len(log) + 2]
              category == IF e.outcome = NoneInt THEN NOT_IN_REGISTRY
                          ELSE STORAGE_SERVICE_CLASS_STATUS(e.outcome)
              r == log'[Len(log) + 3].rsp
          IN  /\ store_results'[1] = store_results[1] - 1
              /\ category = STATUS_SUCCESS =>
                   /\ store_results'[4] = store_results[4] + 1
                   /\ store_results'[3] = store_results[3]
                   /\ store_results'[2] = store_results[2]
                   /\ failed_instances' = failed_instances
              /\ category = STATUS_WARNING =>
                   /\ store_results'[4] = store_results[4]
                   /\ store_results'[3] = store_results[3] + 1
                   /\ store_results'[2] = store_results[2]
                   /\ failed_instances' = WithInstance(failed_instances, e.uid)
              /\ category \notin {STATUS_SUCCESS, STATUS_WARNING} =>
                   /\ store_results'[4] = store_results[4]
                   /\ store_results'[3] = store_results[3]
                   /\ store_results'[2] = store_results[2] + 1
                   /\ failed_instances' = WithInstance(failed_instances, e.uid)
              /\ log'[Len(log) + 3].ev = "send"
              /\ IsPending(r)
              /\ Counters(r) = store_results']_vars

\* a C-GET of three sub-operations whose C-STOREs came back Success, Warning
\* and Failure
C14_Witness ==
    /\ svc = "get"
    /\ no_suboperations = 3
    /\ Len(Sent) = 3
    /\ Counters(Sent[1].rsp) = <<2, 0, 0, 1>>
    /\ Counters(Sent[2].rsp) = <<1, 0, 1, 1>>
    /\ Counters(Sent[3].rsp) = <<0, 1, 1, 1>>
    /\ failed_instances = <<"B", "C">>
    /\ \A i \in 1..3 : IsPending(Sent[i].rsp)
    /\ Cardinality({k \in 1..Len(log) : log[k].ev = "c_store"}) = 3

\* The instances that failed or warned up to log[k], in the order in which
\* they did: the SOP Instance UID of every C-STORE sub-operation that did not
\* succeed and '' for every Pending pair whose dataset was no Dataset.
RECURSIVE FailedUpTo(_)
FailedUpTo(k) ==
    IF k = 0 THEN <<>>
    ELSE LET e == log[k]
             before == FailedUpTo(k - 1)
         IN  IF e.ev = "c_store"
             THEN IF e.outcome # NoneInt
                     /\ STORAGE_SERVICE_CLASS_STATUS(e.outcome) = STATUS_SUCCESS
                  THEN before
                  ELSE WithInstance(before, e.uid)
             ELSE IF /\ e.ev = "send"
                     /\ IsPending(e.rsp)
                     /\ k > 1
                     /\ log[k - 1].ev = "next"
                     /\ log[k - 1].what = "yield"
                     /\ log[k - 1].dataset.kind = "other"
             THEN Append(before, "")
             ELSE before

\* C15: in C-GET and C-MOVE, when the producer is exhausted with no terminal
\* response sent before, the final response has status 0x0000 and no
\* Identifier if the tracker counts no failure and no warning, and otherwise
\* status 0xB000 and an Identifier whose FailedSOPInstanceUIDList holds the
\* failed instances in the order in which they failed or warned.
C15_RetrieveFinalResponse ==
    (/\ svc \in {"get", "move"}
     /\ pc = "done"
     /\ Len(Pulls) >= 1
     /\ Pulls[Len(Pulls)].what = "end")
    => IF store_results[2] = 0 /\ store_results[3] = 0
       THEN /\ LastSent.Status = StatusSuccess
            /\ LastSent.Identifier = NoIdentifier
       ELSE /\ LastSent.Status = StatusWarningB000
            /\ LastSent.Identifier =
                   BytesIO(encode(DsFailedList(FailedUpTo(Len(log))),
                                  transfer_syntax))

\* a C-MOVE whose sub-operations for A and B did not succeed, answered with
\* the final Warning once the producer ended
C15_Witness ==
    /\ svc = "move"
    /\ pc = "done"
    /\ Len(Pulls) >= 1
    /\ Pulls[Len(Pulls)].what = "end"
    /\ store_results[2] = 1
    /\ store_results[3] = 1
    /\ failed_instances = <<"A", "B">>
    /\ LastSent.Status = StatusWarningB000
    /\ LastSent.Identifier =
           BytesIO(encode(DsFailedList(<<"A", "B">>), transfer_syntax))

\* the handler faulted, or what it returned cannot be processed as a status
EchoFaulted(e) ==
    \/ e.what = "fault"
    \/ e.status.kind = "other"
    \/ e.status.kind = "Dataset" /\ e.status.Status = NoneInt

\* C16: C-ECHO sends exactly one response for every handler outcome, and
\* that response has status 0x0000 whenever the handler, or the processing of
\* what it returned, faulted.
C16_EchoOneResponse ==
    svc = "echo" =>
        /\ pc = "done"
        /\ Len(Sent) = 1
        /\ log[1].ev = "trigger"
        /\ EchoFaulted(log[1]) => Sent[1].rsp.Status = StatusSuccess

\* a C-ECHO whose handler returned a Dataset without Status element
C16_Witness ==
    /\ svc = "echo"
    /\ pc = "done"
    /\ log[1].ev = "trigger"
    /\ log[1].what = "return"
    /\ log[1].status.kind = "Dataset"
    /\ log[1].status.Status = NoneInt
    /\ Len(Sent) = 1
    /\ Sent[1].rsp.Status = StatusSuccess

\* C17: C-STORE sends exactly one response for every handler
\* outcome, with status 0xC211 when the handler faults and otherwise the
\* status the validator assigns to what the handler returned, and the
\* response echoes the AffectedSOPClassUID and AffectedSOPInstanceUID of the
\* request.
C17_StoreOneResponse ==
    svc = "store" =>
        /\ pc = "done"
        /\ Len(Sent) = 1
        /\ log[1].ev = "trigger"
        /\ Sent[1].rsp.Status =
               IF log[1].what = "fault" THEN StatusC211
               ELSE YieldedCode(log[1].status)
        /\ Sent[1].rsp.AffectedSOPClassUID = req.AffectedSOPClassUID
        /\ Sent[1].rsp.AffectedSOPInstanceUID = req.AffectedSOPInstanceUID

\* The abstract syntaxes a service class has a protocol for.  The source
\* spells out no table for Substance Administration: every abstract syntax
\* that no table of another service class holds is taken as one of its own.
ClaimedUIDs(cls) ==
    CASE cls = "QueryRetrieve" -> QR_FIND_UIDS \cup QR_GET_UIDS \cup QR_MOVE_UIDS
      [] cls = "BasicWorklistManagement" -> BWM_UIDS
      [] cls = "SubstanceAdministrationQuery" ->
            AbstractSyntaxInputs
            \ (QR_FIND_UIDS \cup QR_GET_UIDS \cup QR_MOVE_UIDS \cup BWM_UIDS)

\* C18: the SCP of the Query/Retrieve, Basic Worklist and Substance
\* Administration classes runs a protocol only when the abstract syntax of the
\* presentation context is one the class has a protocol for, and otherwise
\* fails with the invalid-abstract-syntax error without running any protocol.
C18_RouterRejectsUnclaimed ==
    router.called # NoneStr =>
        (router.called = "ValueError"
         <=> router.abstract_syntax \notin ClaimedUIDs(router.cls))

\* positions of the log entries of one kind
Events(ev) == {k \in 1..Len(log) : log[k].ev = ev}
\* the one response of a C-MOVE says the move destination is unknown
OnlyMoveDestinationUnknown ==
    /\ Len(Sent) = 1
    /\ Sent[1].rsp.Status = StatusA801
    /\ Sent[1].rsp.Identifier = NoIdentifier
    /\ Events("c_store") = {}
\* the handler yielded a destination holding a None
NullDestination ==
    /\ Len(log) >= 1
    /\ log[1].ev = "next"
    /\ log[1].what = "destination"
    /\ log[1].destination = "has_None"
\* associate() returned an association that is not established
NotEstablished ==
    \E k \in Events("associate") : log[k].outcome = "not_established"

\* C19 as stated: in C-MOVE, when the destination the handler yielded holds a
\* None, or when the outbound association fails to establish, exactly one
\* response is sent, with status 0xA801 and no Identifier, and no C-STORE
\* sub-operation; in the first case no association is requested, in the
\* second the socket of the outbound association is closed.
C19_MoveDestinationUnknown ==
    (svc = "move" /\ pc = "done") =>
        /\ NullDestination =>
             OnlyMoveDestinationUnknown /\ Events("associate") = {}
        /\ NotEstablished =>
             OnlyMoveDestinationUnknown /\ Events("socket_close") # {}

\* C19 as amended: the same, for a destination holding a None once the
\* handler has also yielded a number of sub-operations that int() accepts.
C19_MoveDestinationUnknownAfterPrologue ==
    (svc = "move" /\ pc = "done") =>
        /\ (NullDestination /\ no_suboperations # NoneInt) =>
             OnlyMoveDestinationUnknown /\ Events("associate") = {}
        /\ NotEstablished =>
             /\ OnlyMoveDestinationUnknown
             /\ Events("socket_close") # {}
             /\ Events("release") = {}

\* a C-MOVE whose outbound association was requested and did not establish
C19_Witness ==
    /\ svc = "move"
    /\ pc = "done"
    /\ NotEstablished
    /\ store_assoc = "closed"
    /\ Len(Sent) = 1
    /\ Sent[1].rsp.Status = StatusA801

\* associate() returned an established association
Established ==
    \E k \in Events("associate") : log[k].outcome = "established"

C21_TimeoutReleasesAssociation ==
    (svc = "move" /\ pc = "raised") => store_assoc = "released"

\* the value `status` of the element `name` of a status Dataset when it has
\* one, the value `r0` of the response's attribute otherwise
Copied(status, r0, name, absent) ==
    IF status[name] # absent THEN status[name] ELSE r0[name]

\* C22: validate_status always leaves a scalar Status on the response: for a
\* Dataset with a Status element that Status, with every element that names
\* an attribute of the response copied and nothing else changed; 0xC001 for a
\* Dataset without Status; the integer for an integer, a code no registry
\* lists included; 0xC002 for any other type.  (Seen where the validator's
\* output is sent as it is: C-STORE, after the handler returned.)
C22_ValidatorStatus ==
    \A i \in 1..(Len(log) - 1) :
        (svc = "store" /\ log[i].ev = "trigger" /\ log[i].what = "return"
            /\ log[i + 1].ev = "send")
        => LET s == log[i].status
               r == log[i + 1].rsp
               r0 == StoreRsp(req)
           IN  /\ r.Status \in 0..65535
               /\ (s.kind = "Dataset" /\ s.Status # NoneInt)
                    => r = [r0 EXCEPT
                              !.Status = s.Status,
                              !.ErrorComment =
                                  Copied(s, r0, "ErrorComment", NoneStr),
                              !.MessageIDBeingRespondedTo =
                                  Copied(s, r0, "MessageIDBeingRespondedTo",
                                         NoneInt),
                              !.AffectedSOPInstanceUID =
                                  Copied(s, r0, "AffectedSOPInstanceUID",
                                         NoneStr)]
               /\ (s.kind = "Dataset" /\ s.Status = NoneInt)
                    => r = [r0 EXCEPT !.Status = StatusC001]
               /\ s.kind = "int" => r = [r0 EXCEPT !.Status = s.Status]
               /\ s.kind \notin {"Dataset", "int"}
                    => r = [r0 EXCEPT !.Status = StatusC002]

\* a C-STORE handler returned a status Dataset with Status, an Error Comment
\* and an element the response has no attribute for, and the response went out
\* with that Status and that comment
C22_Witness ==
    /\ svc = "store" /\ pc = "done" /\ Len(log) = 2
    /\ log[1].ev = "trigger" /\ log[1].what = "return"
    /\ log[1].status = DatasetStatus(StatusPending, "comment", NoneInt, TRUE)
    /\ log[2].ev = "send"
    /\ log[2].rsp.Status = StatusPending
    /\ log[2].rsp.ErrorComment = "comment"

\* C23: for every value the C-ECHO handler returns, the status of the C-ECHO
\* response is the status validate_status assigns to that value: the
\* Dataset's Status, 0xC001 for a Dataset without Status, the integer, 0xC002
\* for a value of another type.
C23_EchoStatusIsValidated ==
    (svc = "echo" /\ pc = "done" /\ log[1].ev = "trigger"
        /\ log[1].what = "return")
    => Sent[1].rsp.Status = validate_status(log[1].status, NewRsp(req)).Status

\* C23, amended: the C-ECHO response is the one validate_status gives when the
\* handler returned an integer or a Dataset with a Status element, and has
\* status 0x0000 when it returned a Dataset without Status or a value of
\* another type.
C23_EchoStatusValidatedOrSuccess ==
    (svc = "echo" /\ pc = "done" /\ log[1].ev = "trigger"
        /\ log[1].what = "return")
    => LET s == log[1].status
       IN  IF s.kind = "int" \/ (s.kind = "Dataset" /\ s.Status # NoneInt)
           THEN Sent[1].rsp = validate_status(s, NewRsp(req))
           ELSE Sent[1].rsp.Status = StatusSuccess

\* a C-ECHO whose handler returned a status Dataset holding a failure Status,
\* answered with that Status
C23_Witness ==
    /\ svc = "echo"
    /\ pc = "done"
    /\ Len(log) = 2
    /\ log[1].ev = "trigger"
    /\ log[1].what = "return"
    /\ log[1].status = DatasetStatus(StatusA900, NoneStr, 99, FALSE)
    /\ log[2].ev = "send"
    /\ log[2].rsp.Status = StatusA900

\* the element the wrapped generator yields for a fault of the producer: the
\* exception and what traceback.print_exc() returns
FaultElement ==
    [what |-> "yield", status |-> ExceptionStatus, dataset |-> NoneDs]
\* the producer wrapped ends in a fault
ProducerFaults ==
    wrapper.handler[Len(wrapper.handler)].what = "fault"

PendingPass ==
    /\ svc \in {"get", "move"}
    /\ store_results[1] > 0
    /\ Len(log') > Len(log)
    /\ log'[Len(log) + 1].ev = "next"
    /\ log'[Len(log) + 1].what = "yield"
    /\ statuses(svc, YieldedCode(log'[Len(log) + 1].status)) = STATUS_PENDING
    /\ log'[Len(log')].ev # "send_timeout"
\* what the pass does for a dataset that is counted as a failed sub-operation
\* without being sent
CountedAsFailure ==
    /\ store_results' = [store_results EXCEPT ![2] = @ + 1]
    /\ failed_instances' = Append(failed_instances, "")
    /\ Len(log') = Len(log) + 2
    /\ log'[Len(log) + 2].ev = "send"
    /\ IsPending(log'[Len(log) + 2].rsp)
    /\ Counters(log'[Len(log) + 2].rsp) = store_results'
    /\ log'[Len(log) + 2].rsp.Identifier = NoIdentifier
    /\ pc' = pc

\* C25: in C-GET and C-MOVE, for every Pending yield whose dataset is not a
\* Dataset, a null dataset included, failed goes up by 1, '' is appended to
\* the failed instances, remaining stays, no C-STORE is sent, a Pending
\* response with the current counters and no Identifier is sent, and the loop
\* goes on.
C25_InvalidDatasetCounted ==
    [][(PendingPass /\ ~isinstance_Dataset(log'[Len(log) + 1].dataset))
       => CountedAsFailure]_vars

\* C25, amended: the same for every Pending yield whose dataset is a value
\* that is not a Dataset and is not null (nor otherwise falsy); a Pending
\* yield with a null dataset changes nothing and sends nothing.
C25_TruthyInvalidDatasetCounted ==
    [][/\ (PendingPass /\ ~isinstance_Dataset(log'[Len(log) + 1].dataset)
                       /\ Truthy(log'[Len(log) + 1].dataset))
          => CountedAsFailure
       /\ (PendingPass /\ ~Truthy(log'[Len(log) + 1].dataset))
          => /\ store_results' = store_results
             /\ failed_instances' = failed_instances
             /\ Len(log') = Len(log) + 1
             /\ pc' = pc]_vars

\* a C-MOVE that got a Pending pair holding a value that is no Dataset: one
\* failed sub-operation counted, '' among the failed instances, a Pending
\* response sent and no C-STORE
C25_Witness ==
    /\ svc = "move"
    /\ pc = "move_loop"
    /\ Len(log) >= 2
    /\ log[Len(log) - 1].ev = "next"
    /\ log[Len(log) - 1].what = "yield"
    /\ log[Len(log) - 1].dataset = OtherDs
    /\ log[Len(log)].ev = "send"
    /\ IsPending(log[Len(log)].rsp)
    /\ store_results = <<no_suboperations, 1, 0, 0>>
    /\ failed_instances = <<"">>
    /\ Events("c_store") = {}

\* the step is a pass of the C-GET or C-MOVE loop, entered with sub-operations
\* remaining, over a pair the producer yielded with a status of one of the
\* categories, and the send of the pass did not fail
YieldPass(categories) ==
    /\ svc \in {"get", "move"}
    /\ store_results[1] > 0
    /\ Len(log') > Len(log)
    /\ log'[Len(log) + 1].ev = "next"
    /\ log'[Len(log) + 1].what = "yield"
    /\ statuses(svc, YieldedCode(log'[Len(log) + 1].status)) \in categories
    /\ log'[Len(log')].ev # "send_timeout"
\* the Identifier of a Cancel, Failure or Warning response for the dataset
\* the handler yielded with the status
TerminalIdentifier(dataset) ==
    BytesIO(encode(IF dataset.kind = "Dataset"
                      /\ "FailedSOPInstanceUIDList" \in dataset.keys
                   THEN dataset
                   ELSE DsFailedList(failed_instances),
                   transfer_syntax))

TerminalView(r) == <<r.Status, r.Identifier, Counters(r)>>
\* what the final response shows for the state of the tracker
ViewOfTracker ==
    IF store_results[2] = 0 /\ store_results[3] = 0
    THEN <<StatusSuccess, NoIdentifier,
           <<NoneInt, store_results[2], store_results[3], store_results[4]>> >>
    ELSE <<StatusWarningB000,
           BytesIO(encode(DsFailedList(failed_instances), transfer_syntax)),
           <<NoneInt, store_results[2], store_results[3], store_results[4]>> >>
\* the last pull of the producer gave a pair with status 0x0000
LastPullSuccess ==
    /\ Len(Pulls) >= 1
    /\ Pulls[Len(Pulls)].what = "yield"
    /\ YieldedCode(Pulls[Len(Pulls)].status) = StatusSuccess
\* the last pull found the producer exhausted
LastPullEnd ==
    /\ Len(Pulls) >= 1
    /\ Pulls[Len(Pulls)].what = "end"

\* C27: in C-GET and C-MOVE the terminal response to a Success (0x0000) the
\* handler yields and the terminal response sent when the producer is
\* exhausted show, for the same state of the tracker, the same status,
\* Identifier and counters: 0x0000 without Identifier if failed and warning
\* are 0, else 0xB000 with the FailedSOPInstanceUIDList of the tracker, and
\* no remaining count.
C27_SuccessLikeExhaustion ==
    (svc \in {"get", "move"} /\ pc = "done"
        /\ (LastPullSuccess \/ LastPullEnd))
    => TerminalView(LastSent) = ViewOfTracker

\* a C-GET of two sub-operations whose first C-STORE failed and whose handler
\* then yielded 0x0000: answered 0xB000 with the failed instance
C27_Witness ==
    /\ svc = "get"
    /\ pc = "done"
    /\ LastPullSuccess
    /\ store_results = <<1, 1, 0, 0>>
    /\ failed_instances = <<"A">>
    /\ LastSent.Status = StatusWarningB000
    /\ LastSent.Identifier =
           BytesIO(encode(DsFailedList(<<"A">>), transfer_syntax))

\* positions of the events of one kind a step adds to the log
Added(ev) == {k \in (Len(log) + 1)..Len(log') : log'[k].ev = ev}

\* C28: in C-GET and C-MOVE, once the loop receives a pair from the producer
\* while remaining <= 0, the producer is not pulled again, no Pending response
\* and no C-STORE sub-operation follow, and the one response that follows is
\* the final response, with status 0x0000 or 0xB000.
C28_NothingAfterCompletion ==
    [][/\ (/\ svc \in {"get", "move"}
           /\ store_results[1] <= 0
           /\ Len(log') > Len(log)
           /\ log'[Len(log) + 1].ev = "next"
           /\ log'[Len(log) + 1].what \in {"yield", "fault"})
          => /\ pc' = "done"
             /\ Added("next") = {Len(log) + 1}
             /\ Added("c_store") = {}
             /\ Cardinality(Added("send")) = 1
             /\ log'[Len(log')].ev = "send"
             /\ log'[Len(log')].rsp.Status \in {StatusSuccess, StatusWarningB000}
             /\ log'[Len(log')].rsp.Status =
                    IF store_results[2] = 0 /\ store_results[3] = 0
                    THEN StatusSuccess ELSE StatusWarningB000
             /\ store_results' = store_results
       /\ (svc \in {"get", "move"} /\ pc = "done")
          => ~(Len(log') > Len(log))]_vars

\* a C-GET of one sub-operation, stored, whose handler then yielded another
\* Pending pair: one C-STORE, one Pending response and the final 0x0000
C28_Witness ==
    /\ svc = "get"
    /\ pc = "done"
    /\ no_suboperations = 1
    /\ store_results = <<0, 0, 0, 1>>
    /\ Len(Pulls) = 3
    /\ Pulls[3].what = "yield"
    /\ Pulls[3].status = IntStatus(StatusPending)
    /\ isinstance_Dataset(Pulls[3].dataset)
    /\ Cardinality(Events("c_store")) = 1
    /\ Len(Sent) = 2
    /\ LastSent.Status = StatusSuccess
    /\ log[Len(log) - 1] = Pulls[3]

\* the number of sub-operations could not be obtained from the producer, or
\* int() did not take what was obtained
BadSubOperations(e) ==
    e.ev = "next" /\ e.what = "prologue"
        /\ (~e.obtained \/ e.value = NoneInt)
\* the request was answered by the one response log[k], of that status, and
\* nothing else was done: no C-STORE and no outbound association
OnlyResponse(k, status) ==
    /\ pc = "done"
    /\ Len(log) = k
    /\ SendIdx = {k}
    /\ log[k].rsp.Status = status
    /\ Events("c_store") = {}
    /\ Events("associate") = {}
    /\ store_assoc = "none"

\* C29: when the prologue of the producer is invalid, the request gets exactly
\* one response and no C-STORE sub-operation or outbound association is made:
\* C-GET answers 0xC413 when the number of sub-operations cannot be obtained
\* or parsed; C-MOVE answers 0xC514 when the destination or the number of
\* sub-operations cannot be obtained, and 0xC513 when the number obtained
\* cannot be parsed.
C29_InvalidPrologue ==
    /\ (svc = "get" /\ Len(log) >= 1 /\ BadSubOperations(log[1]))
       => OnlyResponse(2, StatusC413)
    /\ (svc = "move" /\ Len(log) >= 1 /\ log[1].ev = "next"
           /\ log[1].what = "destination" /\ log[1].destination = "missing")
       => OnlyResponse(2, StatusC514)
    /\ (svc = "move" /\ Len(log) >= 2 /\ BadSubOperations(log[2]))
       => OnlyResponse(3, IF log[2].obtained THEN StatusC513 ELSE StatusC514)

\* a C-MOVE whose handler yielded a destination and then a number of
\* sub-operations that int() does not take
C29_Witness ==
    /\ svc = "move"
    /\ pc = "done"
    /\ Len(log) = 3
    /\ log[1].ev = "next" /\ log[1].what = "destination"
    /\ log[1].destination = "addr_port"
    /\ BadSubOperations(log[2])
    /\ log[2].obtained
    /\ log[3].ev = "send"
    /\ log[3].rsp.Status = StatusC513

\* C30: when the Identifier of the request cannot be decoded, C-FIND and the
\* Relevant Patient Information Query send exactly one response, with status
\* 0xC310, and C-MOVE exactly one, with status 0xC510, each with the error
\* comment 'Unable to decode the dataset'; the user's handler is not
\* triggered (no producer exists, nothing is pulled) and C-MOVE requests no
\* association.
C30_UndecodableIdentifier ==
    (svc \in {"find", "rpiq", "move"}
        /\ req.Identifier = "garbled")
    => /\ pc = "done"
       /\ Len(log) = 1
       /\ log[1].ev = "send"
       /\ log[1].rsp.Status = IF svc = "move" THEN StatusC510 ELSE StatusC310
       /\ log[1].rsp.ErrorComment = "Unable to decode the dataset"
       /\ log[1].rsp.Identifier = NoIdentifier
       /\ handler = "none"
       /\ store_assoc = "none"

\* a Relevant Patient Information Query whose Identifier does not decode,
\* answered 0xC310
C30_Witness ==
    /\ svc = "rpiq"
    /\ req.Identifier = "garbled"
    /\ pc = "done"
    /\ Len(log) = 1
    /\ log[1].ev = "send"
    /\ log[1].rsp.Status = StatusC310
    /\ log[1].rsp.ErrorComment = "Unable to decode the dataset"
    /\ handler = "none"

\* C31: in C-FIND, when the identifier of a pair yielded with a Pending status
\* encodes to an empty byte stream, one terminal response with status 0xC312
\* and no Identifier is sent, no Pending response is sent for that pair, and
\* the producer is not pulled again.
C31_FindEmptyIdentifier ==
    svc = "find" =>
        \A k \in 1..Len(log) :
            (/\ log[k].ev = "next"
             /\ log[k].what = "yield"
             /\ statuses("find", YieldedCode(log[k].status)) = STATUS_PENDING
             /\ ~(log[k].dataset.kind = "Dataset" /\ log[k].dataset.keys # {}))
            => /\ pc = "done"
               /\ Len(log) = k + 1
               /\ log[k + 1].ev = "send"
               /\ log[k + 1].rsp.Status = StatusC312
               /\ log[k + 1].rsp.Identifier = NoIdentifier

\* a C-FIND handler yielded a match and then a Pending status with None for
\* identifier
C31_Witness ==
    /\ svc = "find"
    /\ pc = "done"
    /\ Len(Pulls) = 2
    /\ PendingMatch(Pulls[1])
    /\ Pulls[2].what = "yield"
    /\ Pulls[2].status = IntStatus(StatusPending)
    /\ Pulls[2].dataset = NoneDs
    /\ Len(Sent) = 2
    /\ IsPending(Sent[1].rsp)
    /\ Sent[2].rsp.Status = StatusC312

\* positions of the terminal responses of a C-MOVE, those whose send failed
\* included
MoveTerminalIdx ==
    {k \in 1..Len(log) :
        /\ log[k].ev \in {"send", "send_timeout"}
        /\ ~IsPending(log[k].rsp)}
\* what the producer gave last: "end", "fault", or the category of the status
\* it yielded
LastPullKind ==
    LET e == Pulls[Len(Pulls)]
    IN  IF e.what = "yield" THEN statuses("move", YieldedCode(e.status))
        ELSE e.what

\* C32: in C-MOVE, whenever the outbound association was established, the
\* terminal response, whatever path leads to it (a Cancel, Failure, Warning,
\* Success or unknown status yielded, the producer exhausted, or a pair
\* received with remaining <= 0), is handed to send_msg right after release()
\* was called on the outbound association, and not before.
C32_ReleaseBeforeTerminal ==
    (svc = "move" /\ Established) =>
        \A t \in MoveTerminalIdx :
            /\ t > 1
            /\ log[t - 1].ev = "release"
            /\ \A r \in Events("release") : r = t - 1
            /\ store_assoc = "released"

\* a C-MOVE whose handler yielded a status no registry lists after one
\* sub-operation: released, then answered with that status
C32_Witness ==
    /\ svc = "move"
    /\ pc = "done"
    /\ Established
    /\ Cardinality(Events("c_store")) = 1
    /\ Len(Pulls) >= 1
    /\ LastPullKind = NOT_IN_REGISTRY
    /\ Len(log) >= 2
    /\ log[Len(log)].ev = "send"
    /\ log[Len(log)].rsp.Status = 65520
    /\ log[Len(log) - 1].ev = "release"

\* the Relevant Patient Information Query got as far as asking the producer
\* for its first value, and that did not fault
RpiqAsked ==
    /\ svc = "rpiq"
    /\ Len(log) >= 1
    /\ log[1].ev = "next"
    /\ log[1].what \in {"StopIteration", "yield"}
\* one pull, never a second one, and what the protocol sends whenever the
\* first value is not a Pending pair
RpiqOneShot ==
    /\ pc = "done"
    /\ Events("next") = {1}
    /\ Len(Sent) <= 2
    /\ Len(log) = 1 + Len(Sent)
    /\ log[1].what = "StopIteration"
         => Len(Sent) = 1 /\ Sent[1].rsp.Status = StatusSuccess
    /\ (log[1].what = "yield"
           /\ statuses("rpiq", YieldedCode(log[1].status)) # STATUS_PENDING)
         => Len(Sent) = 1 /\ Sent[1].rsp.Status = YieldedCode(log[1].status)
\* the Pending response for the pair, then the final 0x0000
RpiqPendingThenFinal ==
    /\ Len(Sent) = 2
    /\ Sent[1].rsp.Status = YieldedCode(log[1].status)
    /\ Sent[1].rsp.Identifier # NoIdentifier
    /\ Sent[2].rsp.Status = StatusSuccess

\* C33: the Relevant Patient Information Query pulls the producer at most
\* once and sends at most two responses: one 0x0000 response when the
\* producer yields nothing; for a Pending pair that Pending response and then
\* one 0x0000 response; for a pair of another category, or of a status the
\* registry does not list, that one response; a second value is never asked
\* for.
C33_RpiqOneShot ==
    RpiqAsked =>
        /\ RpiqOneShot
        /\ (log[1].what = "yield"
               /\ statuses("rpiq", YieldedCode(log[1].status)) = STATUS_PENDING)
             => RpiqPendingThenFinal

\* C33, amended: the same, where a Pending pair gets the Pending response and
\* the 0x0000 response only if its identifier encodes to a non-empty byte
\* stream, and otherwise the single response 0xC312.
C33_RpiqOneShotOrEncodeFailure ==
    RpiqAsked =>
        /\ RpiqOneShot
        /\ (log[1].what = "yield"
               /\ statuses("rpiq", YieldedCode(log[1].status)) = STATUS_PENDING)
             => IF log[1].dataset.kind = "Dataset" /\ log[1].dataset.keys # {}
                THEN RpiqPendingThenFinal
                ELSE /\ Len(Sent) = 1
                     /\ Sent[1].rsp.Status = StatusC312
                     /\ Sent[1].rsp.Identifier = NoIdentifier

\* a Relevant Patient Information Query whose handler yielded one match:
\* the Pending response and the 0x0000 response, and nothing more pulled
C33_Witness ==
    /\ RpiqAsked
    /\ pc = "done"
    /\ log[1].what = "yield"
    /\ log[1].status = IntStatus(StatusPending)
    /\ log[1].dataset = DsUID("A")
    /\ Len(log) = 3
    /\ log[2].ev = "send" /\ log[2].rsp.Status = StatusPending
    /\ log[3].ev = "send" /\ log[3].rsp.Status = StatusSuccess

\* C34: in the Relevant Patient Information Query, every fault raised by the
\* event trigger or by the handler while it produces its first value,
\* whatever its kind (a TypeError included), is answered by exactly one
\* terminal response, with status 0xC311.
C34_RpiqFaultGivesFailure ==
    (svc = "rpiq" /\ Len(log) >= 1 /\ log[1].ev = "next"
        /\ log[1].what \in {"fault", "TypeError"})
    => /\ pc = "done"
       /\ Len(log) = 2
       /\ log[2].ev = "send"
       /\ log[2].rsp.Status = StatusC311

\* the number of C-STORE sub-operations in the log up to position k
SubOperationsUpTo(k) == Cardinality({c \in Events("c_store") : c <= k})

\* C35: in C-GET every C-STORE sub-operation goes over the association of the
\* request, and sub-operations and responses alternate: a sub-operation has
\* come back before the Pending response that reports it is sent, that
\* response is sent before the next sub-operation starts, and no
\* sub-operation starts after the terminal response.
C35_GetSubOperationsSequenced ==
    svc = "get" =>
        \A c \in Events("c_store") :
            /\ log[c].on = "assoc"
            /\ c < Len(log)
            /\ log[c + 1].ev = "send"
            /\ IsPending(log[c + 1].rsp)
            /\ log[c + 1].rsp.NumberOfRemainingSuboperations =
                   no_suboperations - SubOperationsUpTo(c)
            /\ \A d \in Events("c_store") : d > c => d > c + 1
            /\ \A t \in TerminalIdx : c < t

\* a C-GET of three sub-operations, two of them stored and reported, then
\* ended by a Failure the handler yielded
C35_Witness ==
    /\ svc = "get"
    /\ pc = "done"
    /\ no_suboperations = 3
    /\ Cardinality(Events("c_store")) = 2
    /\ Len(Sent) = 3
    /\ IsPending(Sent[1].rsp)
    /\ IsPending(Sent[2].rsp)
    /\ Sent[3].rsp.Status = StatusA900
    /\ \A c \in Events("c_store") : log[c + 1].ev = "send"

\* the larger of two integers
Max(a, b) == IF a >= b THEN a ELSE b

\* C36: in C-GET and C-MOVE the number of C-STORE sub-operations sent for a
\* request never exceeds max(no_suboperations, 0), and when no_suboperations
\* is not negative the remaining count, in the tracker and on every Pending
\* or Cancel response, which are the responses that carry it, is never
\* negative.
C36_SubOperationsBounded ==
    (svc \in {"get", "move"} /\ no_suboperations # NoneInt) =>
        /\ Cardinality(Events("c_store")) <= Max(no_suboperations, 0)
        /\ no_suboperations >= 0 =>
             /\ store_results[1] >= 0
             /\ \A k \in SendIdx :
                  Category(log[k].rsp) \in {STATUS_PENDING, STATUS_CANCEL}
                      => log[k].rsp.NumberOfRemainingSuboperations >= 0

\* a C-GET that announced two sub-operations, sent both, and whose handler
\* yielded a third dataset: two C-STOREs, remaining 0 on the last Pending
C36_Witness ==
    /\ svc = "get"
    /\ pc = "done"
    /\ no_suboperations = 2
    /\ Cardinality(Events("c_store")) = 2
    /\ store_results[1] = 0
    /\ Len(Pulls) = 4
    /\ Pulls[4].what = "yield"
    /\ Pulls[4].status = IntStatus(StatusPending)
    /\ isinstance_Dataset(Pulls[4].dataset)
    /\ Len(Sent) = 3
    /\ Sent[2].rsp.NumberOfRemainingSuboperations = 0

\* sequence `a` is the beginning of sequence `b`
IsPrefix(a, b) == Len(a) <= Len(b) /\ SubSeq(b, 1, Len(a)) = a

\* C37: in C-GET and C-MOVE the list of failed instances is never longer than
\* failed + warning of the tracker, and it only grows: every step of a
\* request leaves the entries it had, in their order, and at most appends.
C37_FailedInstancesAppendOnly ==
    [][(svc \in {"get", "move"} /\ svc' = svc)
       => /\ Len(failed_instances) <= store_results[2] + store_results[3]
          /\ Len(failed_instances') <= store_results'[2] + store_results'[3]
          /\ IsPrefix(failed_instances, failed_instances')]_vars

\* a C-GET in progress: one sub-operation came back with a warning, one
\* dataset was no Dataset, and one sub-operation failed for a dataset without
\* SOP Instance UID
C37_Witness ==
    /\ svc = "get"
    /\ pc = "get_loop"
    /\ store_results[2] = 2
    /\ store_results[3] = 1
    /\ Len(failed_instances) = 2
    /\ failed_instances[2] = ""
    /\ Cardinality(Events("c_store")) = 2

(***************************************************************************)
(* is_cancelled statement by statement, with the DIMSE task recording      *)
(* C-CANCELs in between, over a succession of requests on one association. *)
(***************************************************************************)
\* `del cancel_req[msg_id]` emptying the whole map
del_all(cancel_map, msg_id) == [map |-> {}, raised |-> FALSE]

\* `del self.dimse.cancel_req[msg_id]`: the map afterwards, and whether the
\* statement raised KeyError
del(cancel_map, msg_id) ==
    IF msg_id \in cancel_map
    THEN [map |-> cancel_map \ {msg_id}, raised |-> FALSE]
    ELSE [map |-> cancel_map, raised |-> TRUE]

InitPoll == Init

\* A request with Message ID m arrives and its handler starts.  Nothing in
\* the service class touches dimse.cancel_req at this point.
RequestStart ==
    /\ served.MessageID = NoneInt
    /\ \E m \in CancelIDs :
         served' = [served EXCEPT !.MessageID = m, !.fresh = {}]
    /\ UNCHANGED <<poll, protoVars, cancelVars, midVars, routerVars, wrapperVars>>

\* The request has been answered.  A C-CANCEL recorded for it and never
\* reported stays in dimse.cancel_req.
RequestEnd ==
    /\ served.MessageID # NoneInt
    /\ poll.at = "idle"
    /\ served' = [served EXCEPT
                    !.MessageID = NoneInt,
                    !.fresh = {},
                    !.stale = @ \cup ({served.MessageID} \cap served.fresh
                                        \cap cancel_req)]
    /\ UNCHANGED <<poll, protoVars, cancelVars, midVars, routerVars, wrapperVars>>

\* The DIMSE task receives a C-CANCEL whose Message ID Being Responded To is
\* m and records it, wherever the handler stands.
RecordCancelAt(m) ==
    /\ cancel_req' = cancel_req \cup {m}
    /\ consumed' = consumed \ {m}
    /\ poll' = [poll EXCEPT
                  !.owed = @ \cup {m},
                  !.overlapped = @ \/ (poll.at = "del" /\ poll.msg_id = m)]
    /\ served' = IF served.MessageID # NoneInt
                 THEN [served EXCEPT !.fresh = @ \cup {m}]
                 ELSE served
    /\ UNCHANGED <<probe, protoVars, midVars, routerVars, wrapperVars>>

\* `if msg_id in self.dimse.cancel_req.keys():` of a call is_cancelled(m) by
\* the handler of the request being served.  A false test is the whole call:
\* `return False`.
PollTest(m) ==
    /\ served.MessageID # NoneInt
    /\ poll.at = "idle"
    /\ poll.raised = FALSE
    /\ IF is_cancelled(cancel_req, m)
       THEN /\ poll' = [poll EXCEPT !.at = "del", !.msg_id = m,
                                    !.overlapped = FALSE]
            /\ UNCHANGED probe
       ELSE /\ poll' = [poll EXCEPT !.msg_id = m, !.overlapped = FALSE]
            /\ probe' = [msg_id |-> m, result |-> FALSE,
                         calls |-> 1 - probe.calls]
    /\ UNCHANGED <<cancel_req, consumed, served, protoVars, midVars, routerVars,
                   wrapperVars>>

\* `del self.dimse.cancel_req[msg_id]` and `return True` of the call under
\* way; a KeyError of the del statement leaves the call without a result.
PollDel ==
    /\ poll.at = "del"
    /\ LET m == poll.msg_id
           d == del(cancel_req, m)
       IN  /\ cancel_req' = d.map
           /\ IF d.raised
              THEN /\ poll' = [poll EXCEPT !.at = "idle", !.raised = TRUE]
                   /\ UNCHANGED <<probe, consumed, served>>
              ELSE /\ poll' = [poll EXCEPT !.at = "idle", !.owed = @ \ {m}]
                   /\ probe' = [msg_id |-> m, result |-> TRUE,
                                calls |-> 1 - probe.calls]
                   /\ consumed' = consumed \cup {m}
                   /\ served' = [served EXCEPT !.stale = @ \ {m}]
    /\ UNCHANGED <<protoVars, midVars, routerVars, wrapperVars>>

NextPoll ==
    \/ RequestStart
    \/ RequestEnd
    \/ \E m \in CancelIDs : RecordCancelAt(m)
    \/ \E m \in CancelIDs : PollTest(m)
    \/ PollDel

SpecPoll == InitPoll /\ [][NextPoll]_vars

\* an is_cancelled call has just returned
PollReturned == probe'.calls # probe.calls

\* C38: a C-CANCEL for message id m left in the cancel map by the request it
\* was meant for is not seen by a later request with the same message id:
\* for that request is_cancelled(m) returns true only if a C-CANCEL for m was
\* recorded after the request started.
C38_StaleCancelNotObserved ==
    [][(/\ PollReturned
        /\ probe'.result = TRUE
        /\ probe'.msg_id = served.MessageID
        /\ probe'.msg_id \in served.stale)
       => probe'.msg_id \in served.fresh]_vars

\* C40: whatever the interleaving of the DIMSE task recording C-CANCELs and
\* the handler's is_cancelled calls, statement by statement, no call raises,
\* and once a C-CANCEL for m is recorded the first call is_cancelled(m) that
\* returns at or after the recording returns true.
C40_PollNeverFailsNorMisses ==
    [][/\ poll'.raised = FALSE
       /\ (PollReturned /\ probe'.msg_id \in poll.owed)
            => probe'.result = TRUE]_vars

\* a C-CANCEL for m was recorded between the membership test and the del of
\* a call is_cancelled(m), and the call has returned true
C40_Witness ==
    /\ poll.at = "idle"
    /\ poll.overlapped
    /\ poll.raised = FALSE
    /\ probe.msg_id = poll.msg_id
    /\ probe.result = TRUE
    /\ poll.msg_id \notin poll.owed
    /\ poll.msg_id \notin cancel_req

\* log[a] is an associate() call made after the destination was pulled and
\* held no None, and after the number of sub-operations was pulled and parsed
AfterPrologue(a) ==
    \E d \in 1..(a - 1), p \in 1..(a - 1) :
        /\ d < p
        /\ log[d].ev = "next"
        /\ log[d].what = "destination"
        /\ log[d].destination = "addr_port"
        /\ log[p].ev = "next"
        /\ log[p].what = "prologue"
        /\ log[p].obtained
        /\ log[p].value # NoneInt
        /\ no_suboperations = log[p].value

\* C39: in C-MOVE associate() is invoked at most once per request, and only
\* after both prologue values were obtained, the number of sub-operations was
\* parsed and the destination held no None; every C-STORE sub-operation goes
\* out on the outbound association after it was established and before it is
\* released.
C39_AssociateOnceAfterPrologue ==
    svc = "move" =>
        /\ Cardinality(Events("associate")) <= 1
        /\ \A a \in Events("associate") : AfterPrologue(a)
        /\ \A c \in Events("c_store") :
             /\ log[c].on = "store_assoc"
             /\ \E a \in Events("associate") :
                  a < c /\ log[a].outcome = "established"
             /\ \A r \in Events("release") : c < r
        /\ store_assoc = "released" => pc \in {"done", "raised"}

\* a finished C-MOVE that sent two sub-operations on the association it
\* opened and then released it
C39_Witness ==
    /\ svc = "move"
    /\ pc = "done"
    /\ Cardinality(Events("associate")) = 1
    /\ Cardinality(Events("c_store")) = 2
    /\ Cardinality(Events("release")) = 1
    /\ store_assoc = "released"

====
